---- MODULE Spec2Model ----
(***************************************************************************)
(* hawk-tui Python client (examples/python/hawk.py): the sequencer, the    *)
(* transport queue, the batch worker and shutdown of HawkClient; and       *)
(* ProgressTracker, ConfigPanel, AuditLogger, Dashboard and                *)
(* BatchOperations of examples/python/hawk_advanced.py; hawk.context and   *)
(* hawk.batch of hawk.py.                                                  *)
(*                                                                         *)
(* The specifications share the variables:                                 *)
(*   SpecSeq    threads inside HawkClient._get_next_sequence, one step per *)
(*              lock operation and per read/write of self.sequence;        *)
(*   Spec       producer threads in _send_message_async that overflow the  *)
(*              queue, the worker thread in _message_worker/_flush_batch,  *)
(*              and one thread that calls shutdown();                      *)
(*   SpecBatch  the same client with a queue the producers cannot fill,    *)
(*              unserializable messages and a sink that refuses writes;    *)
(*   SpecFlush  one producer and the worker, every flush succeeding.       *)
(*   SpecProgress  one application thread using a ProgressTracker;         *)
(*   SpecConfig    one application thread using a ConfigPanel;             *)
(*   SpecAudit     threads logging to one AuditLogger, the audit file      *)
(*                 being altered from outside, and verify_integrity();     *)
(*   SpecLayout    one application thread adding widgets to a Dashboard;   *)
(*   SpecDash      the application thread and the refresh threads of a     *)
(*                 Dashboard;                                              *)
(*   SpecInert     a client and the calls made after shutdown() returned;  *)
(*   SpecLive      a client whose worker thread is scheduled fairly;       *)
(*   SpecBatchOps  threads adding to one BatchOperations, its timer thread *)
(*                 and flush();                                            *)
(*   SpecContext   one thread in nested hawk.context blocks;               *)
(*   SpecAutoLayout  Dashboard._auto_layout called by itself;              *)
(*   SpecPanelLock   a ConfigPanel whose callbacks call the panel;         *)
(*   SpecBatchCtx  threads in hawk.batch blocks on the global client.      *)
(* Time is the clock the worker compares with flush_interval.              *)
(***************************************************************************)
EXTENDS Integers, Sequences, FiniteSets, TLC

\* ------------------------------------------------------------------ bounds
\* HawkConfig.buffer_size (100 by default), the threshold of a batch:
\* of Spec, of SpecBatch and of SpecFlush
QueueBufferSize == 1
BufferSize == 2
FlushBufferSize == 3
\* calls of log/metric/progress/event made by one producer thread
MaxSend == 2
\* messages of a run whose params json.dumps cannot serialize
MaxBad == 1
\* writes of a run that the sink refuses (print raises)
MaxFaults == 1
\* calls of _get_next_sequence made in a run, by all threads (SpecSeq)
MaxCalls == 5

\* flush_interval (0.1 s) counted in periods of the worker's get timeout
\* (0.05 s): the clock of the model ticks once per 0.05 s
FlushInterval == 2

Producers == {"p1", "p2"}
Worker == "worker"
Main == "main"
Callers == {"c1", "c2", "c3"}

Min(a, b) == IF a < b THEN a ELSE b

RECURSIVE SeqToSet(_)
SeqToSet(s) == IF s = <<>> THEN {} ELSE {Head(s)} \cup SeqToSet(Tail(s))

RECURSIVE Flatten(_)
Flatten(ss) == IF ss = <<>> THEN <<>> ELSE Head(ss) \o Flatten(Tail(ss))

VARIABLES
    \* ---- HawkConfig
    buffer_size,        \* self._config.buffer_size
    graceful_fallback,  \* self._config.graceful_fallback
    thread_safe,        \* self._config.thread_safe
    \* ---- HawkClient
    sequence,           \* self.sequence
    sequence_lock,      \* self._sequence_lock: "free" or the thread holding it
    buffer,             \* self._buffer, the Queue of HawkMessage
    shutdownFlag,       \* self._shutdown
    sink,               \* the lines printed to stdout, oldest first
    \* ---- the worker thread, _message_worker
    wpc,                \* position of the worker
    batch,              \* local batch
    elapsed,            \* time.time() - last_flush, saturating at FlushInterval
    lag,                \* time.time() - current_time while a flush runs
    \* ---- a thread inside _flush_batch
    fl,                 \* the argument messages
    stamped,            \* the sequence numbers drawn so far
    \* ---- producer threads, _send_message_async
    ppc, cur, sent,
    \* ---- what the application and the sink do in this run
    quota,              \* calls each producer thread makes
    badLeft,            \* unserializable messages still to come
    faultsLeft,         \* refused writes still to come
    \* ---- the thread calling shutdown()
    sdpc, remaining,
    \* ---- history of the run
    accepted,           \* messages put in the queue
    late,               \* those put after shutdown() was called
    evicted,            \* messages removed by drop-oldest
    givenUp,            \* messages abandoned at "Give up gracefully"
    discarded,          \* messages of a batch whose flush failed
    \* ---- callers of _get_next_sequence (SpecSeq)
    cpc, loaded, calls, floor, issued,
    \* ---- hawk_advanced: what ProgressTracker and ConfigPanel hand to
    \* self.client (HawkClient.progress, HawkClient._send_message_async)
    emitted,
    \* ---- ProgressTracker
    active_progress,    \* self._active_progress: id -> progress_data
    progress_history,   \* self._progress_history
    tracker_lock,       \* self._lock, a threading.Lock: "free" or "held"
    ptStack,            \* the frames of complete() the application thread is in
    now,                \* time.time()
    ptResult,           \* the last call of the tracker and how it ended
    ptOps,              \* calls of the tracker made so far
    \* ---- ConfigPanel
    fields,             \* self._fields: key -> ConfigField
    values,             \* self._values: key -> value
    callbacks,          \* self._callbacks: key -> what the callback does
    config_file,        \* self._config_file is set
    saves,              \* calls of _save_to_file that wrote the file
    callbackLog,        \* the calls made to change callbacks
    cfResult,           \* the last call of the panel and how it ended
    cfOps,              \* calls of the panel made so far
    \* ---- AuditLogger
    audit_sequence,     \* self._sequence
    audit_lock,         \* self._lock: "free" or the thread holding it
    audit_file,         \* the lines of self.audit_file, oldest first
    apc,                \* position of each thread inside _log_audit_event
    aev,                \* the local event of each thread
    auFaults,           \* writes to the audit file that failed so far
    auCalls,            \* calls of log_access/log_config_change/log_command made
    auReturned,         \* those that returned normally
    auAltered,          \* lines of the file changed from outside
    verifyResult,       \* what the last verify_integrity() returned
    auVerifies,         \* calls of verify_integrity made so far
    \* ---- Dashboard
    dash_widgets,       \* self._widgets: widget_id -> widget object (0: absent)
    refresh_threads,    \* self._refresh_threads: widget_id -> thread (0: absent)
    dash_shutdown,      \* self._shutdown
    next_row,           \* self._next_row
    next_col,           \* self._next_col
    wobj,               \* the widget objects created so far, oldest first
    rpc,                \* position of the refresh thread of each widget object
    slept,              \* the argument of its last time.sleep
    polls,              \* iterations the refresh threads have started
    dpc,                \* position of the application thread in the Dashboard
    dcur,               \* the widget object whose get_data it is executing
    joinLeft,           \* the threads shutdown() has still to join
    removes,            \* calls of remove_widget made so far
    \* ---- BatchOperations
    message_batch,      \* self._message_batch
    bo_lock,            \* self._lock, a threading.Lock: "free" or its holder
    bo_stats,           \* self._stats
    bopc,               \* position of each thread inside BatchOperations
    bo_local,           \* the local batch of each thread inside _flush_now
    boDue,              \* time.time() - self._last_flush >= self.flush_interval
    boCalls,            \* calls of add_log/add_metric/add_event made per thread
    boFaults,           \* flushes whose json.dumps or print raised
    bo_printed,         \* the messages printed by _flush_now, oldest first
    \* ---- hawk.context
    context_stack,      \* _context_stack
    cxFrames,           \* the context blocks the thread is inside, outermost first
    cxRaising,          \* an exception is propagating out of a block
    cxBefore,           \* _context_stack before the outermost block was entered
    cxOps,              \* with hawk.context(...) statements executed so far
    \* ---- Dashboard._auto_layout called by itself
    layouts,            \* the layouts _auto_layout returned, oldest first
    \* ---- ConfigPanel: its lock and the calls the thread is inside
    panel_lock,         \* self._lock, a threading.Lock: "free" or "held"
    cfStack,            \* the frames of set_value / get_value, outermost first
    \* ---- hawk.batch
    flush_interval,     \* client._config.flush_interval, in periods of 0.05 s
    btpc,               \* position of each thread in batch()
    btSaved,            \* original_interval of the batch() blocks each thread is inside
    btEnters,           \* with hawk.batch() statements executed by each thread
    \* ---- calls made after shutdown() has returned
    lateCalls,          \* calls of log/metric/progress/event
    sdAgain             \* calls of shutdown()

configVars == <<buffer_size, graceful_fallback, thread_safe>>
workerVars == <<wpc, batch, elapsed, lag>>
flushVars == <<fl, stamped>>
producerVars == <<ppc, cur, sent>>
envVars == <<quota, badLeft, faultsLeft>>
shutdownVars == <<sdpc, remaining>>
historyVars == <<accepted, late, evicted, givenUp, discarded>>
clientVars == <<configVars, buffer, shutdownFlag, sink, workerVars, flushVars,
                producerVars, envVars, shutdownVars, historyVars>>
seqVars == <<sequence_lock, cpc, loaded, calls, floor, issued>>
trackerVars == <<active_progress, progress_history, tracker_lock, ptStack, now,
                 ptResult, ptOps>>
panelVars == <<fields, values, callbacks, config_file, saves, callbackLog, cfResult, cfOps>>
auditVars == <<audit_sequence, audit_lock, audit_file, apc, aev, auFaults, auCalls,
               auReturned, auAltered, verifyResult, auVerifies>>
dashVars == <<dash_widgets, refresh_threads, dash_shutdown, next_row, next_col, wobj, rpc,
              slept, polls, dpc, dcur, joinLeft, removes>>
batchOpsVars == <<message_batch, bo_lock, bo_stats, bopc, bo_local, boDue, boCalls,
                  boFaults, bo_printed>>
contextVars == <<context_stack, cxFrames, cxRaising, cxBefore, cxOps>>
lockVars == <<panel_lock, cfStack>>
batchVars == <<flush_interval, btpc, btSaved, btEnters>>
inertVars == <<lateCalls, sdAgain>>
extVars == <<batchOpsVars, contextVars, layouts, lockVars, batchVars, inertVars>>
\* what the actions of one class leave alone among these
restBatchOps == <<contextVars, layouts, lockVars, batchVars, inertVars>>
restContext == <<batchOpsVars, layouts, lockVars, batchVars, inertVars>>
restLayout == <<batchOpsVars, contextVars, lockVars, batchVars, inertVars>>
restLock == <<batchOpsVars, contextVars, layouts, batchVars, inertVars>>
restBatch == <<batchOpsVars, contextVars, layouts, lockVars, inertVars>>
restInert == <<batchOpsVars, contextVars, layouts, lockVars, batchVars>>
advVars == <<emitted, trackerVars, panelVars, auditVars, dashVars, extVars>>
vars == <<clientVars, sequence, seqVars, advVars>>

\* ---- hawk_advanced.py: ids, keys and values of the runs
Ids == {"parent", "child"}
Keys == {"n", "mode"}

\* A call of the tracker / of the panel that has not happened.
NoCall == [op |-> "none", id |-> "none", cur |-> -1, success |-> FALSE,
           wasActive |-> FALSE, result |-> "none"]
NoValue == [t |-> "none", n |-> 0, s |-> ""]
NoField == [field_type |-> "none"]
NoPanelCall == [op |-> "none", key |-> "none", value |-> NoValue, result |-> "none"]

\* ProgressTracker.__init__
TrackerInit ==
    /\ active_progress = <<>>
    /\ progress_history = <<>>
    /\ tracker_lock = "free"
    /\ ptStack = <<>>
    /\ now = 0
    /\ ptResult = NoCall
    /\ ptOps = 0

\* ConfigPanel.__init__
PanelInit ==
    /\ fields = [k \in Keys |-> NoField]
    /\ values = [k \in Keys |-> NoValue]
    /\ callbacks = [k \in Keys |-> "none"]
    /\ config_file = FALSE
    /\ saves = 0
    /\ callbackLog = <<>>
    /\ cfResult = NoPanelCall
    /\ cfOps = 0

\* ---- AuditLogger: the threads that log, and a call that has not happened
AuditCallers == {"a1", "a2"}
NoEvent == [event_type |-> "none"]
NoVerify == [status |-> "none"]

\* AuditLogger.__init__ with an audit_file that does not exist yet
AuditInit ==
    /\ audit_sequence = 0
    /\ audit_lock = "free"
    /\ audit_file = <<>>
    /\ apc = [t \in AuditCallers |-> "idle"]
    /\ aev = [t \in AuditCallers |-> NoEvent]
    /\ auFaults = 0
    /\ auCalls = 0
    /\ auReturned = 0
    /\ auAltered = 0
    /\ verifyResult = NoVerify
    /\ auVerifies = 0

\* ---- Dashboard: widget ids, and the widget objects a run can create
WidgetIds == {"w1", "w2", "w3", "w4"}
MaxWidgets == 4
Handles == 1..MaxWidgets

\* Dashboard.__init__
DashInit ==
    /\ dash_widgets = [id \in WidgetIds |-> 0]
    /\ refresh_threads = [id \in WidgetIds |-> 0]
    /\ dash_shutdown = FALSE
    /\ next_row = 0
    /\ next_col = 0
    /\ wobj = <<>>
    /\ rpc = [h \in Handles |-> "none"]
    /\ slept = [h \in Handles |-> -1]
    /\ polls = 0
    /\ dpc = "idle"
    /\ dcur = 0
    /\ joinLeft = {}
    /\ removes = 0

\* ---- BatchOperations: the threads that add, the timer thread and the
\* application thread that calls flush()
BoAdders == {"b1", "b2"}
BoTimer == "timer"
BoApp == "app"
BoThreads == BoAdders \cup {BoTimer, BoApp}

\* BatchOperations.__init__
BatchOpsInit ==
    /\ message_batch = <<>>
    /\ bo_lock = "free"
    /\ bo_stats = [messages_sent |-> 0, batches_sent |-> 0, flush_errors |-> 0]
    /\ bopc = [t \in BoThreads |-> "idle"]
    /\ bo_local = [t \in BoThreads |-> <<>>]
    /\ boDue = FALSE
    /\ boCalls = [t \in BoAdders |-> 0]
    /\ boFaults = 0
    /\ bo_printed = <<>>

\* ---- hawk.batch: the threads that use it
BtThreads == {"t1", "t2"}

\* hawk.py at import: _context_stack = []
ContextInit ==
    /\ context_stack = <<>>
    /\ cxFrames = <<>>
    /\ cxRaising = FALSE
    /\ cxBefore = <<>>
    /\ cxOps = 0

ExtInit ==
    /\ BatchOpsInit
    /\ ContextInit
    /\ layouts = <<>>
    /\ panel_lock = "free"
    /\ cfStack = <<>>
    /\ flush_interval = FlushInterval
    /\ btpc = [t \in BtThreads |-> "idle"]
    /\ btSaved = [t \in BtThreads |-> <<>>]
    /\ btEnters = [t \in BtThreads |-> 0]
    /\ lateCalls = 0
    /\ sdAgain = 0

NoMsg == [p |-> "none", n |-> 0, bad |-> FALSE]

\* The state HawkClient.__init__ leaves, for a given configuration and a
\* given run of the application (q, bad) and of the sink (faults).
ClientInit(bs, gf, ts, q, bad, faults) ==
    /\ buffer_size = bs
    /\ graceful_fallback = gf
    /\ thread_safe = ts
    /\ sequence = 0
    /\ sequence_lock = "free"
    /\ buffer = <<>>
    /\ shutdownFlag = FALSE
    /\ sink = <<>>
    /\ wpc = IF ts THEN "loop" ELSE "none"
    /\ batch = <<>>
    /\ elapsed = 0
    /\ lag = 0
    /\ fl = [t \in Producers \cup {Worker, Main} |-> <<>>]
    /\ stamped = [t \in Producers \cup {Worker, Main} |-> <<>>]
    /\ ppc = [p \in Producers |-> "idle"]
    /\ cur = [p \in Producers |-> NoMsg]
    /\ sent = [p \in Producers |-> 0]
    /\ quota = q
    /\ badLeft = bad
    /\ faultsLeft = faults
    /\ sdpc = "idle"
    /\ remaining = <<>>
    /\ accepted = {}
    /\ late = {}
    /\ evicted = {}
    /\ givenUp = {}
    /\ discarded = {}
    /\ cpc = [c \in Callers |-> "idle"]
    /\ loaded = [c \in Callers |-> 0]
    /\ calls = [c \in Callers |-> 0]
    /\ floor = [c \in Callers |-> 0]
    /\ issued = <<>>
    /\ emitted = <<>>
    /\ TrackerInit
    /\ PanelInit
    /\ AuditInit
    /\ DashInit
    /\ ExtInit

\* ------------------------------------------------- _get_next_sequence
\* with self._sequence_lock: the lock is taken only when it is free.
LockFreeNoCheck(c) == TRUE
LockFree(c) == sequence_lock = "free"

\* The largest value any finished call has returned.
RECURSIVE MaxVal(_)
MaxVal(s) == IF s = <<>> THEN 0
             ELSE IF Head(s).val > MaxVal(Tail(s)) THEN Head(s).val ELSE MaxVal(Tail(s))

\* The calls of _get_next_sequence made so far, by all threads.
RECURSIVE SumOver(_, _)
SumOver(f, S) == IF S = {} THEN 0
                 ELSE LET x == CHOOSE y \in S : TRUE IN f[x] + SumOver(f, S \ {x})
StartedCalls == SumOver(calls, Callers)

\* A thread enters _get_next_sequence.
SeqCall(c) ==
    /\ cpc[c] = "idle"
    /\ StartedCalls < MaxCalls
    /\ cpc' = [cpc EXCEPT ![c] = "acquire"]
    /\ calls' = [calls EXCEPT ![c] = @ + 1]
    /\ floor' = [floor EXCEPT ![c] = MaxVal(issued)]
    /\ UNCHANGED <<sequence, sequence_lock, loaded, issued, clientVars, advVars>>

\* __enter__ of the lock
SeqAcquire(c) ==
    /\ cpc[c] = "acquire"
    /\ LockFree(c)
    /\ sequence_lock' = c
    /\ cpc' = [cpc EXCEPT ![c] = "load"]
    /\ UNCHANGED <<sequence, loaded, calls, floor, issued, clientVars, advVars>>

\* self.sequence += 1 reads self.sequence ...
SeqLoad(c) ==
    /\ cpc[c] = "load"
    /\ loaded' = [loaded EXCEPT ![c] = sequence]
    /\ cpc' = [cpc EXCEPT ![c] = "store"]
    /\ UNCHANGED <<sequence, sequence_lock, calls, floor, issued, clientVars, advVars>>

\* ... and stores the sum
SeqStore(c) ==
    /\ cpc[c] = "store"
    /\ sequence' = loaded[c] + 1
    /\ cpc' = [cpc EXCEPT ![c] = "return"]
    /\ UNCHANGED <<sequence_lock, loaded, calls, floor, issued, clientVars, advVars>>

\* return self.sequence, then __exit__ of the lock
SeqReturn(c) ==
    /\ cpc[c] = "return"
    /\ issued' = Append(issued, [val |-> sequence, floor |-> floor[c], by |-> c])
    /\ sequence_lock' = IF sequence_lock = c THEN "free" ELSE sequence_lock
    /\ cpc' = [cpc EXCEPT ![c] = "idle"]
    /\ loaded' = [loaded EXCEPT ![c] = 0]
    /\ UNCHANGED <<sequence, calls, floor, clientVars, advVars>>

InitSeq == ClientInit(BufferSize, TRUE, TRUE, [p \in Producers |-> 0], 0, 0)

NextSeq ==
    \E c \in Callers :
        \/ SeqCall(c)
        \/ SeqAcquire(c)
        \/ SeqLoad(c)
        \/ SeqStore(c)
        \/ SeqReturn(c)

SpecSeq == InitSeq /\ [][NextSeq]_vars

\* C1: no two calls of _get_next_sequence return the same value, and a call
\* returns more than every call that had finished when it started.
C1_SequenceStrictlyIncreasing ==
    /\ \A i, j \in DOMAIN issued : i # j => issued[i].val # issued[j].val
    /\ \A i \in DOMAIN issued : issued[i].val > issued[i].floor

\* C1 witness: three threads have each finished a call, and one of them
\* started after another had finished.
C1_Witness ==
    /\ {issued[i].by : i \in DOMAIN issued} = Callers
    /\ \E i \in DOMAIN issued : issued[i].floor > 0

\* ------------------------------------------------------- _flush_batch
Threads == Producers \cup {Worker, Main}

Msgs(s) == SeqToSet(s)

\* One call of self._get_next_sequence() made by _flush_batch: the locked
\* increment of SpecSeq as one step.
NextSequence(s) == s + 1

\* msg.to_jsonrpc(app_name, session_id, self._get_next_sequence()) for the
\* next message of the argument
FlushSeq(t) ==
    /\ Len(stamped[t]) < Len(fl[t])
    /\ sequence' = NextSequence(sequence)
    /\ stamped' = [stamped EXCEPT ![t] = Append(@, NextSequence(sequence))]

\* json.dumps(..., default=self._json_serializer) raises when a value of
\* some message cannot be serialized: one call serializes the whole argument.
Serializable(ms) == \A i \in DOMAIN ms : ~ms[i].bad

\* How json.dumps followed by print(json_str, flush=True) can end.
Outcomes(ms) ==
    IF ~Serializable(ms) THEN {"serialize_error"}
    ELSE IF faultsLeft > 0 THEN {"written", "write_error"}
    ELSE {"written"}

\* The line print writes: one JSON object for a single message, one JSON
\* array otherwise.
Line(t, ms, seqs) ==
    [by |-> t,
     form |-> IF Len(ms) = 1 THEN "object" ELSE "array",
     items |-> [i \in 1..Len(ms) |-> [m |-> ms[i], seq |-> seqs[i]]]]

\* except Exception as e: ... if not self._config.graceful_fallback: raise
FlushRaises == ~graceful_fallback

\* The effect of json.dumps and print on the sink, for the thread t that
\* has stamped every message of its argument; o is how they end.
FlushWrite(t, o) ==
    /\ Len(stamped[t]) = Len(fl[t])
    /\ o \in Outcomes(fl[t])
    /\ sink' = IF o = "written" THEN Append(sink, Line(t, fl[t], stamped[t])) ELSE sink
    /\ discarded' = IF o = "written" THEN discarded
                    ELSE discarded \cup {[m |-> fl[t][i], seq |-> stamped[t][i],
                                           why |-> o, by |-> t] : i \in DOMAIN fl[t]}
    /\ faultsLeft' = IF o = "write_error" THEN faultsLeft - 1 ELSE faultsLeft
    /\ fl' = [fl EXCEPT ![t] = <<>>]
    /\ stamped' = [stamped EXCEPT ![t] = <<>>]

\* Every message some line of the sink carries, in the order of the sink.
WrittenItems == Flatten([i \in DOMAIN sink |-> sink[i].items])
Written == {WrittenItems[i].m : i \in DOMAIN WrittenItems}
Discarded == {d.m : d \in discarded}

\* ---------------------------------------------------- _message_worker
\* while not self._shutdown:
WorkerLoop ==
    /\ wpc = "loop"
    /\ wpc' = IF shutdownFlag THEN "exited" ELSE "get"
    /\ UNCHANGED <<configVars, buffer, shutdownFlag, sink, batch, elapsed, lag,
                   flushVars, producerVars, envVars, shutdownVars, historyVars,
                   sequence, seqVars, advVars>>

\* self._buffer.get(timeout=0.05) on a queue that stays empty raises Empty
\* after the timeout; a get() without timeout would wait for a message
GetBlocks == FALSE
GetTimesOut == TRUE

\* message = self._buffer.get(timeout=0.05); batch.append(message)
\* or, the queue staying empty for the timeout, except Empty: pass
WorkerGet ==
    /\ wpc = "get"
    /\ buffer # <<>> \/ GetTimesOut
    /\ IF buffer # <<>>
       THEN /\ batch' = Append(batch, Head(buffer))
            /\ buffer' = Tail(buffer)
            /\ elapsed' = elapsed
       ELSE /\ elapsed' = Min(elapsed + 1, FlushInterval)
            /\ UNCHANGED <<batch, buffer>>
    /\ wpc' = "cond"
    /\ UNCHANGED <<configVars, shutdownFlag, sink, lag, flushVars, producerVars, envVars,
                   shutdownVars, historyVars, sequence, seqVars, advVars>>

\* len(batch) >= self._config.buffer_size
SizeTriggerOffByOne(b) == Len(b) > buffer_size
SizeTrigger(b) == Len(b) >= buffer_size

\* batch and current_time - last_flush >= self._config.flush_interval
TimeTriggerNever(b) == FALSE
TimeTrigger(b) == b # <<>> /\ elapsed >= FlushInterval

\* should_flush = (... or ... or self._shutdown)
ShouldFlush(b) == SizeTrigger(b) \/ TimeTrigger(b) \/ shutdownFlag

\* current_time = time.time(); should_flush = ...;
\* if should_flush and batch: self._flush_batch(batch) is entered
WorkerCond ==
    /\ wpc = "cond"
    /\ IF ShouldFlush(batch) /\ batch # <<>>
       THEN /\ wpc' = "flush"
            /\ fl' = [fl EXCEPT ![Worker] = batch]
            /\ stamped' = [stamped EXCEPT ![Worker] = <<>>]
       ELSE /\ wpc' = "loop"
            /\ UNCHANGED <<fl, stamped>>
    /\ lag' = 0
    /\ UNCHANGED <<configVars, buffer, shutdownFlag, sink, batch, elapsed, producerVars,
                   envVars, shutdownVars, historyVars, sequence, seqVars, advVars>>

WorkerFlushSeq ==
    /\ wpc = "flush"
    /\ FlushSeq(Worker)
    /\ UNCHANGED <<configVars, buffer, shutdownFlag, sink, workerVars, fl, producerVars,
                   envVars, shutdownVars, historyVars, seqVars, advVars>>

\* except Exception as e: (of _message_worker) ... batch = []
\* and the loop goes on; last_flush keeps its value.
WorkerExceptDies == [pc |-> "dead", batch |-> batch, elapsed |-> elapsed]
WorkerExcept == [pc |-> "loop", batch |-> <<>>, elapsed |-> elapsed]

\* _flush_batch returned: batch = []; last_flush = current_time
WorkerKeepsBatch == [pc |-> "loop", batch |-> batch, elapsed |-> lag]
WorkerFlushed == [pc |-> "loop", batch |-> <<>>, elapsed |-> lag]

\* json.dumps and print of the worker's flush, and what the worker does with
\* the outcome.
WorkerFlushPrint ==
    /\ wpc = "flush"
    /\ \E o \in Outcomes(fl[Worker]) :
        /\ FlushWrite(Worker, o)
        /\ LET after == IF o # "written" /\ FlushRaises THEN WorkerExcept
                        ELSE WorkerFlushed
           IN /\ wpc' = after.pc
              /\ batch' = after.batch
              /\ elapsed' = after.elapsed
    /\ lag' = 0
    /\ UNCHANGED <<configVars, buffer, shutdownFlag, producerVars, quota, badLeft,
                   shutdownVars, accepted, late, evicted, givenUp, sequence, seqVars, advVars>>

\* 0.05 s pass on the clock the worker reads.
Tick ==
    /\ wpc \in {"loop", "get", "cond", "flush"}
    /\ elapsed < FlushInterval \/ (wpc = "flush" /\ lag < FlushInterval)
    /\ elapsed' = Min(elapsed + 1, FlushInterval)
    /\ lag' = IF wpc = "flush" THEN Min(lag + 1, FlushInterval) ELSE lag
    /\ UNCHANGED <<configVars, buffer, shutdownFlag, sink, wpc, batch, flushVars,
                   producerVars, envVars, shutdownVars, historyVars, sequence, seqVars, advVars>>

\* ------------------------------------------------ _send_message_async
\* Queue(maxsize=self._config.buffer_size * 2)
Maxsize == buffer_size * 2

\* if self._config.thread_safe: the message goes to the queue and the worker
UsesQueueNever == FALSE
UsesQueue == thread_safe

\* _send_message_async and shutdown(): if self._shutdown: return
IsShutDownNever == FALSE
IsShutDown == shutdownFlag

\* A producer thread calls log / metric / progress / event, which build the
\* params and call _send_message_async: if self._shutdown: return; then
\* message = HawkMessage(method, params, message_id).
SendCall(p) ==
    /\ ppc[p] = "idle"
    /\ sent[p] < quota[p]
    /\ sent' = [sent EXCEPT ![p] = @ + 1]
    /\ IF IsShutDown
       THEN UNCHANGED <<ppc, cur, badLeft, fl, stamped>>
       ELSE \E b \in BOOLEAN :
              /\ b => badLeft > 0
              /\ badLeft' = IF b THEN badLeft - 1 ELSE badLeft
              /\ cur' = [cur EXCEPT ![p] = [p |-> p, n |-> sent[p] + 1, bad |-> b]]
              /\ IF UsesQueue
                 THEN /\ ppc' = [ppc EXCEPT ![p] = "put"]
                      /\ UNCHANGED <<fl, stamped>>
                 ELSE /\ ppc' = [ppc EXCEPT ![p] = "direct"]
                      /\ fl' = [fl EXCEPT ![p] = <<[p |-> p, n |-> sent[p] + 1, bad |-> b]>>]
                      /\ stamped' = [stamped EXCEPT ![p] = <<>>]
    /\ UNCHANGED <<configVars, buffer, shutdownFlag, sink, workerVars, quota, faultsLeft,
                   shutdownVars, historyVars, sequence, seqVars, advVars>>

\* Queue.put(block=False) raises Full when maxsize <= qsize().
QueueFullNever(q) == FALSE
QueueFull(q) == Len(q) >= Maxsize

\* The message enters the queue.
Enqueue(p) ==
    /\ buffer' = Append(buffer, cur[p])
    /\ accepted' = accepted \cup {cur[p]}
    /\ late' = IF sdpc = "idle" THEN late ELSE late \cup {cur[p]}

\* A put that waits for a free slot, as Queue.put with block=True does.
SendPutBlocking(p) ==
    /\ ppc[p] = "put"
    /\ ~QueueFull(buffer)
    /\ Enqueue(p)
    /\ ppc' = [ppc EXCEPT ![p] = "idle"]
    /\ cur' = [cur EXCEPT ![p] = NoMsg]
    /\ UNCHANGED <<configVars, shutdownFlag, sink, workerVars, flushVars, sent, envVars,
                   shutdownVars, evicted, givenUp, discarded, sequence, seqVars, advVars>>

\* self._buffer.put_nowait(message); Full sends the thread to the bare
\* except.
SendPut(p) ==
    /\ ppc[p] = "put"
    /\ IF ~QueueFull(buffer)
       THEN /\ Enqueue(p)
            /\ ppc' = [ppc EXCEPT ![p] = "idle"]
            /\ cur' = [cur EXCEPT ![p] = NoMsg]
       ELSE /\ ppc' = [ppc EXCEPT ![p] = "drop"]
            /\ UNCHANGED <<buffer, accepted, late, cur>>
    /\ UNCHANGED <<configVars, shutdownFlag, sink, workerVars, flushVars, sent, envVars,
                   shutdownVars, evicted, givenUp, discarded, sequence, seqVars, advVars>>

\* except: self._buffer.get_nowait() removes the head of the queue; Empty
\* is caught by the inner bare except (pass: Give up gracefully).
SendDropOldest(p) ==
    /\ ppc[p] = "drop"
    /\ IF buffer # <<>>
       THEN /\ evicted' = evicted \cup {Head(buffer)}
            /\ buffer' = Tail(buffer)
            /\ ppc' = [ppc EXCEPT ![p] = "retry"]
            /\ UNCHANGED <<givenUp, cur>>
       ELSE /\ givenUp' = givenUp \cup {cur[p]}
            /\ ppc' = [ppc EXCEPT ![p] = "idle"]
            /\ cur' = [cur EXCEPT ![p] = NoMsg]
            /\ UNCHANGED <<buffer, evicted>>
    /\ UNCHANGED <<configVars, shutdownFlag, sink, workerVars, flushVars, sent, envVars,
                   shutdownVars, accepted, late, discarded, sequence, seqVars, advVars>>

\* The second self._buffer.put_nowait(message); Full is caught by the inner
\* bare except (pass: Give up gracefully).
SendRetry(p) ==
    /\ ppc[p] = "retry"
    /\ IF ~QueueFull(buffer)
       THEN /\ Enqueue(p)
            /\ UNCHANGED givenUp
       ELSE /\ givenUp' = givenUp \cup {cur[p]}
            /\ UNCHANGED <<buffer, accepted, late>>
    /\ ppc' = [ppc EXCEPT ![p] = "idle"]
    /\ cur' = [cur EXCEPT ![p] = NoMsg]
    /\ UNCHANGED <<configVars, shutdownFlag, sink, workerVars, flushVars, sent, envVars,
                   shutdownVars, evicted, discarded, sequence, seqVars, advVars>>

\* thread_safe off: self._flush_batch([message]) in the calling thread
SendDirectSeq(p) ==
    /\ ppc[p] = "direct"
    /\ FlushSeq(p)
    /\ UNCHANGED <<configVars, buffer, shutdownFlag, sink, workerVars, fl, producerVars,
                   envVars, shutdownVars, historyVars, seqVars, advVars>>

\* except Exception as e: (of _send_message_async)
\*     if not self._config.graceful_fallback: raise
SendExcept == IF ~graceful_fallback THEN "raised" ELSE "idle"

\* json.dumps and print of the direct flush; what _flush_batch re-raises
\* reaches the handler of _send_message_async.
SendDirectPrint(p) ==
    /\ ppc[p] = "direct"
    /\ \E o \in Outcomes(fl[p]) :
        /\ FlushWrite(p, o)
        /\ ppc' = [ppc EXCEPT ![p] = IF o # "written" /\ FlushRaises THEN SendExcept
                                     ELSE "idle"]
    /\ cur' = [cur EXCEPT ![p] = NoMsg]
    /\ UNCHANGED <<configVars, buffer, shutdownFlag, workerVars, sent, quota, badLeft,
                   shutdownVars, accepted, late, evicted, givenUp, sequence, seqVars, advVars>>

\* ------------------------------------------------------------ shutdown
\* if self._shutdown: return; self._shutdown = True
ShutdownCall ==
    /\ sdpc = "idle"
    /\ IF shutdownFlag
       THEN /\ sdpc' = "done"
            /\ UNCHANGED shutdownFlag
       ELSE /\ sdpc' = "drain"
            /\ shutdownFlag' = TRUE
    /\ UNCHANGED <<configVars, buffer, sink, workerVars, flushVars, producerVars, envVars,
                   remaining, historyVars, sequence, seqVars, advVars>>

\* remaining.append(self._buffer.get_nowait()) until Empty;
\* if remaining: self._flush_batch(remaining) is entered
ShutdownDrain ==
    /\ sdpc = "drain"
    /\ IF buffer # <<>>
       THEN /\ remaining' = Append(remaining, Head(buffer))
            /\ buffer' = Tail(buffer)
            /\ UNCHANGED <<sdpc, fl, stamped>>
       ELSE /\ UNCHANGED <<remaining, buffer>>
            /\ IF remaining # <<>>
               THEN /\ sdpc' = "flush"
                    /\ fl' = [fl EXCEPT ![Main] = remaining]
                    /\ stamped' = [stamped EXCEPT ![Main] = <<>>]
               ELSE /\ sdpc' = "join"
                    /\ UNCHANGED <<fl, stamped>>
    /\ UNCHANGED <<configVars, shutdownFlag, sink, workerVars, producerVars, envVars,
                   historyVars, sequence, seqVars, advVars>>

ShutdownFlushSeq ==
    /\ sdpc = "flush"
    /\ FlushSeq(Main)
    /\ UNCHANGED <<configVars, buffer, shutdownFlag, sink, workerVars, fl, producerVars,
                   envVars, shutdownVars, historyVars, seqVars, advVars>>

\* json.dumps and print of the final flush; an exception _flush_batch
\* re-raises leaves shutdown() before the join.
ShutdownFlushPrint ==
    /\ sdpc = "flush"
    /\ \E o \in Outcomes(fl[Main]) :
        /\ FlushWrite(Main, o)
        /\ sdpc' = IF o # "written" /\ FlushRaises THEN "raised" ELSE "join"
    /\ UNCHANGED <<configVars, buffer, shutdownFlag, workerVars, producerVars, quota,
                   badLeft, remaining, accepted, late, evicted, givenUp, sequence, seqVars, advVars>>

\* if hasattr(self, '_worker_thread') and self._worker_thread.is_alive():
\*     self._worker_thread.join(timeout=1.0)
\* join returns when the worker has ended or when the second has passed.
ShutdownJoin ==
    /\ sdpc = "join"
    /\ sdpc' = "done"
    /\ UNCHANGED <<configVars, buffer, shutdownFlag, sink, workerVars, flushVars,
                   producerVars, envVars, remaining, historyVars, sequence, seqVars, advVars>>

\* ---------------------------------------------------------------- Spec
WorkerStep ==
    \/ WorkerLoop
    \/ WorkerGet
    \/ WorkerCond
    \/ WorkerFlushSeq
    \/ WorkerFlushPrint

SendStep(p) ==
    \/ SendPut(p)
    \/ SendDropOldest(p)
    \/ SendRetry(p)
    \/ SendDirectSeq(p)
    \/ SendDirectPrint(p)

ShutdownStep ==
    \/ ShutdownCall
    \/ ShutdownDrain
    \/ ShutdownFlushSeq
    \/ ShutdownFlushPrint
    \/ ShutdownJoin

\* calls of log/metric/progress/event and of shutdown() a run makes after
\* shutdown() has returned
MaxLate == 2
MaxAgain == 1

\* log, metric, progress or event called after shutdown() has returned: each
\* builds its params and calls _send_message_async, which returns at once
\* when self._shutdown is set and else takes the message
SendLate(p) ==
    /\ sdpc = "done"
    /\ ppc[p] = "idle"
    /\ lateCalls < MaxLate
    /\ lateCalls' = lateCalls + 1
    /\ IF IsShutDown
       THEN UNCHANGED <<ppc, cur, fl, stamped>>
       ELSE /\ cur' = [cur EXCEPT ![p] = [p |-> p, n |-> sent[p] + 1, bad |-> FALSE]]
            /\ IF UsesQueue
               THEN /\ ppc' = [ppc EXCEPT ![p] = "put"]
                    /\ UNCHANGED <<fl, stamped>>
               ELSE /\ ppc' = [ppc EXCEPT ![p] = "direct"]
                    /\ fl' = [fl EXCEPT ![p] = <<[p |-> p, n |-> sent[p] + 1,
                                                  bad |-> FALSE]>>]
                    /\ stamped' = [stamped EXCEPT ![p] = <<>>]
    /\ UNCHANGED <<configVars, buffer, shutdownFlag, sink, workerVars, sent, envVars,
                   shutdownVars, historyVars, sequence, seqVars>>
    /\ UNCHANGED <<emitted, trackerVars, panelVars, auditVars, dashVars, restInert, sdAgain>>

\* shutdown() called after shutdown() has returned
ShutdownAgain ==
    /\ sdpc = "done"
    /\ sdAgain < MaxAgain
    /\ sdAgain' = sdAgain + 1
    /\ IF IsShutDown
       THEN UNCHANGED <<sdpc, shutdownFlag>>
       ELSE /\ sdpc' = "drain"
            /\ shutdownFlag' = TRUE
    /\ UNCHANGED <<configVars, buffer, sink, workerVars, flushVars, producerVars, envVars,
                   remaining, historyVars, sequence, seqVars>>
    /\ UNCHANGED <<emitted, trackerVars, panelVars, auditVars, dashVars, restInert,
                   lateCalls>>

\* Spec: a client whose queue holds two messages, two producer threads that
\* can fill it, the worker and shutdown(), with thread_safe on or off.
Init ==
    \E gf \in BOOLEAN, ts \in BOOLEAN :
        ClientInit(QueueBufferSize, gf, ts, [p \in Producers |-> MaxSend], 0, MaxFaults)

Next ==
    \/ WorkerStep
    \/ Tick
    \/ \E p \in Producers : SendCall(p) \/ SendStep(p)
    \/ ShutdownStep

Spec == Init /\ [][Next]_vars

\* SpecBatch: the worker collects batches (threshold BufferSize) while the
\* producers send fewer messages than the queue holds, so put_nowait never
\* raises Full; a message may be unserializable and the sink may refuse a
\* write.
InitBatch ==
    \E gf \in BOOLEAN :
        ClientInit(BufferSize, gf, TRUE,
                   [p \in Producers |-> IF p = "p1" THEN MaxSend ELSE MaxSend - 1],
                   MaxBad, MaxFaults)

NextBatch ==
    \/ WorkerStep
    \/ Tick
    \/ \E p \in Producers : SendCall(p) \/ SendPut(p)
    \/ ShutdownStep

SpecBatch == InitBatch /\ [][NextBatch]_vars

\* SpecFlush: one producer and the worker of a client with a larger
\* threshold, every message serializable and every write accepted.
InitFlush ==
    ClientInit(FlushBufferSize, TRUE, TRUE,
               [p \in Producers |-> IF p = "p1" THEN MaxSend + 1 ELSE 0], 0, 0)

NextFlush ==
    \/ WorkerStep
    \/ Tick
    \/ \E p \in Producers : SendCall(p) \/ SendPut(p)
    \/ ShutdownStep

SpecFlush == InitFlush /\ [][NextFlush]_vars

\* SpecInert: one producer thread that can fill the queue, the worker,
\* shutdown(), and the calls made after shutdown() has returned.
InitInert ==
    \E gf \in BOOLEAN, ts \in BOOLEAN :
        ClientInit(QueueBufferSize, gf, ts,
                   [p \in Producers |-> IF p = "p1" THEN MaxSend + 1 ELSE 0], 0, 0)

NextInert ==
    \/ WorkerStep
    \/ Tick
    \/ \E p \in Producers : SendCall(p) \/ SendStep(p)
    \/ ShutdownStep
    \/ \E p \in Producers : SendLate(p)
    \/ ShutdownAgain

SpecInert == InitInert /\ [][NextInert]_vars

InitLive ==
    \E gf \in BOOLEAN :
        ClientInit(BufferSize, gf, TRUE,
                   [p \in Producers |-> IF p = "p1" THEN MaxSend ELSE 0], 0, MaxFaults)

NextLive ==
    \/ WorkerStep
    \/ Tick
    \/ \E p \in Producers : SendCall(p) \/ SendPut(p)
    \/ ShutdownStep

SpecLive == InitLive /\ [][NextLive]_vars /\ WF_vars(WorkerStep)

\* C40: once shutdown() has set the stop flag, the loop of the worker thread
\* ends, whether the queue is empty or not: the worker never waits for a
\* message without limit.
C40_WorkerLoopExits ==
    shutdownFlag ~> (wpc = "exited")

\* C40 witness: the worker has left its loop after shutdown() and after a
\* flush, and a message put late is still in the queue
C40_Witness ==
    /\ shutdownFlag
    /\ wpc = "exited"
    /\ buffer # <<>>
    /\ sink # <<>>

\* ------------------------------------------------------------- claims
\* C2: in every reachable state the queue holds at most its capacity,
\* 2 x buffer_size messages.
C2_QueueWithinCapacity == Len(buffer) <= 2 * buffer_size

\* C2 witness: the queue is at capacity and a producer that found it full is
\* about to put its message again.
C2_Witness ==
    /\ Len(buffer) = 2 * buffer_size
    /\ \E p \in Producers : ppc[p] = "retry"

\* C3 (as claimed): while shutdown() has not been called, a call of
\* _send_message_async that found the queue full returns with its own
\* message in the queue.
C3_FullQueueKeepsNewMessage ==
    [][\A p \in Producers :
          (~shutdownFlag /\ ppc[p] \in {"drop", "retry"} /\ ppc'[p] = "idle")
              => \E i \in DOMAIN buffer' : buffer'[i] = cur[p]]_vars

C5_ProducerOrderAtSink ==
    \A i, j \in DOMAIN WrittenItems :
        (WrittenItems[i].m.p = WrittenItems[j].m.p
            /\ WrittenItems[i].m.n < WrittenItems[j].m.n) => i < j

\* C6 (as claimed): when shutdown() has returned, the worker has ended and no
\* flush has failed, every message that was accepted before shutdown() was
\* called and not evicted is in the sink.
C6_ShutdownWritesAccepted ==
    (sdpc = "done" /\ wpc = "exited" /\ discarded = {})
        => ((accepted \ late) \ evicted) \subseteq Written

\* C7: a flush that fails never ends the worker: the worker leaves its loop
\* only after shutdown() set the flag, until then it can always take a next
\* step, the messages of the failed batch are in no later batch and in no
\* line of the sink.
C7_WorkerSurvivesFailedFlush ==
    /\ wpc \in {"loop", "get", "cond", "flush", "exited"}
    /\ wpc = "exited" => shutdownFlag
    /\ wpc # "exited" => ENABLED WorkerStep
    /\ Discarded \cap Written = {}
    /\ Discarded \cap (Msgs(batch) \cup Msgs(fl[Worker])) = {}

\* C7 witness: with graceful_fallback off a flush of the worker has failed,
\* and the worker has since written a later batch.
C7_Witness ==
    /\ ~graceful_fallback
    /\ \E d \in discarded :
        /\ d.by = Worker
        /\ \E i \in DOMAIN sink :
              /\ sink[i].by = Worker
              /\ sink[i].items[1].seq > d.seq

\* C8 (as claimed): a serialization failure loses only the message that
\* cannot be serialized.
C8_BadMessageDroppedAlone ==
    \A d \in discarded : d.why = "serialize_error" => d.m.bad

C10_PartialOneWrite ==
    [][(wpc = "cond" /\ wpc' = "flush" /\ sink = <<>> /\ ~shutdownFlag
            /\ Cardinality(accepted) < buffer_size)
          => Len(fl'[Worker]) = Cardinality(accepted)]_vars

\* C10 (amended): the flush check that finds a pending batch and
\* flush_interval or more passed since the last flush flushes the whole
\* batch; without shutdown() a batch of fewer than buffer_size messages is
\* flushed on no other occasion; the flush writes one line that carries
\* exactly the pending batch and empties the batch; no message is written
\* twice.
C10_PendingBatchOneWrite ==
    [][/\ (wpc = "cond" /\ wpc' # "cond" /\ batch # <<>> /\ elapsed >= FlushInterval)
             => (wpc' = "flush" /\ fl'[Worker] = batch)
       /\ (wpc = "cond" /\ wpc' = "flush" /\ Len(batch) < buffer_size /\ ~shutdownFlag)
             => elapsed >= FlushInterval
       /\ (wpc = "flush" /\ wpc' # "flush")
             => /\ batch' = <<>>
                /\ sink' = Append(sink, Line(Worker, batch, stamped[Worker]))
       /\ \A i, j \in DOMAIN WrittenItems' :
             WrittenItems'[i].m = WrittenItems'[j].m => i = j]_vars

\* C10 witness: shutdown() not called, two messages (fewer than buffer_size)
\* have been enqueued and the worker has written both in one line, the only
\* line of the sink.
C10_Witness ==
    /\ ~shutdownFlag
    /\ Len(sink) = 1
    /\ sink[1].by = Worker
    /\ Len(sink[1].items) = 2
    /\ Cardinality(accepted) = 2
    /\ 2 < buffer_size

\* ============================================== hawk_advanced.py
\* ------------------------------------------------------ ProgressTracker
\* total of an operation, and the largest current an update reports
MaxTotal == 2
\* readings of time.time() in a run
MaxClock == 2
\* calls of start / update / complete in a run
MaxOps == 4

\* def progress(self, progress_id, label, current, total, unit="",
\*              status="in_progress", details=None, **kwargs)
ProgressSignature ==
    <<"progress_id", "label", "current", "total", "unit", "status", "details">>

\* Python binds the first npos parameters to the positional arguments; a
\* keyword argument that names one of them is a TypeError (multiple values
\* for the argument), raised before the body of progress() runs.
BindRaises(npos, kw) == \E i \in 1..npos : ProgressSignature[i] \in kw

\* The envelope HawkClient.progress hands to _send_message_async.
ProgressEnvelope(id, c, total, status, eta) ==
    [method |-> "hawk.progress", id |-> id, current |-> c, total |-> total,
     status |-> status, estimated_completion |-> eta]

\* self.client.progress(...) as called with npos positional arguments and the
\* keywords kw: what becomes of emitted, and whether the call raised.
ClientProgress(npos, kw, env) ==
    IF BindRaises(npos, kw) THEN [emitted |-> emitted, raised |-> TRUE]
    ELSE [emitted |-> Append(emitted, env), raised |-> FALSE]

\* del d[id]
Del(d, id) == [i \in DOMAIN d \ {id} |-> d[i]]

\* d[id] = rec
Put(d, id, rec) == [i \in DOMAIN d \cup {id} |-> IF i = id THEN rec ELSE d[i]]

ThreadIdle == ptStack = <<>> /\ tracker_lock = "free" /\ ptOps < MaxOps

\* ProgressTracker.start(progress_id, label, total, unit, parent_id)
PtStart(id, total, parent) ==
    /\ ThreadIdle
    /\ LET rec == [id |-> id, total |-> total, current |-> 0, start_time |-> now,
                   last_update |-> now, parent_id |-> parent, children |-> {},
                   estimated_completion |-> -1, end_time |-> -1,
                   success |-> FALSE, duration |-> -1]
           a1 == Put(active_progress, id, rec)
           a2 == IF parent # "none" /\ parent \in DOMAIN a1
                 THEN [a1 EXCEPT ![parent].children = @ \cup {id}]
                 ELSE a1
           call == ClientProgress(4, {"unit", "status"},
                                  ProgressEnvelope(id, 0, total, "pending", -1))
       IN /\ active_progress' = a2
          /\ emitted' = call.emitted
          /\ ptResult' = [op |-> "start", id |-> id, cur |-> 0, success |-> FALSE,
                          wasActive |-> id \in DOMAIN active_progress,
                          result |-> IF call.raised THEN "raised" ELSE "returned"]
    /\ ptOps' = ptOps + 1
    /\ UNCHANGED <<progress_history, tracker_lock, ptStack, now, panelVars, auditVars, dashVars,
                   clientVars, extVars, sequence, seqVars>>

\* now + (total - current) / (current / elapsed), in whole clock readings
Eta(rec, c) == now + ((rec.total - c) * (now - rec.start_time)) \div c

\* ProgressTracker.update(progress_id, current, details)
PtUpdate(id, c) ==
    /\ ThreadIdle
    /\ IF id \notin DOMAIN active_progress
       THEN /\ ptResult' = [op |-> "update", id |-> id, cur |-> c, success |-> FALSE,
                            wasActive |-> FALSE, result |-> "returned"]
            /\ UNCHANGED <<active_progress, emitted>>
       ELSE LET old == active_progress[id]
                eta == IF now - old.start_time > 0 /\ c > 0
                       THEN Eta(old, c) ELSE old.estimated_completion
                rec == [old EXCEPT !.current = c, !.last_update = now,
                                   !.estimated_completion = eta]
                kw == {"unit", "current", "details"}
                      \cup (IF eta # -1 THEN {"estimated_completion"} ELSE {})
                call == ClientProgress(4, kw,
                            ProgressEnvelope(id, c, rec.total, "in_progress", eta))
            IN /\ active_progress' = Put(active_progress, id, rec)
               /\ emitted' = call.emitted
               /\ ptResult' = [op |-> "update", id |-> id, cur |-> c,
                               success |-> FALSE, wasActive |-> TRUE,
                               result |-> IF call.raised THEN "raised" ELSE "returned"]
    /\ ptOps' = ptOps + 1
    /\ UNCHANGED <<progress_history, tracker_lock, ptStack, now, panelVars, auditVars, dashVars,
                   clientVars, extVars, sequence, seqVars>>

\* list(progress_data["children"]): the set in some order
Orders(S) ==
    {q \in [1..Cardinality(S) -> S] : \A i, j \in 1..Cardinality(S) : q[i] = q[j] => i = j}

Top == ptStack[Len(ptStack)]
Pop == SubSeq(ptStack, 1, Len(ptStack) - 1)
SetTop(f) == [ptStack EXCEPT ![Len(ptStack)] = f]

\* ProgressTracker.complete(progress_id, success) is entered.
PtCompleteCall(id, success) ==
    /\ ThreadIdle
    /\ ptStack' = <<[id |-> id, success |-> success, pc |-> "acquire", todo |-> <<>>]>>
    /\ ptResult' = [op |-> "complete", id |-> id, cur |-> -1, success |-> success,
                    wasActive |-> id \in DOMAIN active_progress, result |-> "running"]
    /\ ptOps' = ptOps + 1
    /\ UNCHANGED <<active_progress, progress_history, tracker_lock, now, emitted,
                   panelVars, auditVars, dashVars, clientVars, extVars, sequence, seqVars>>

\* with self._lock: the lock is not reentrant, it is taken when it is free;
\* if progress_id not in self._active_progress: return
PtCompleteAcquire ==
    /\ ptStack # <<>>
    /\ Top.pc = "acquire"
    /\ tracker_lock = "free"
    /\ IF Top.id \notin DOMAIN active_progress
       THEN /\ ptStack' = Pop
            /\ ptResult' = IF Pop = <<>> THEN [ptResult EXCEPT !.result = "returned"]
                           ELSE ptResult
            /\ UNCHANGED tracker_lock
       ELSE /\ \E q \in Orders(active_progress[Top.id].children) :
                  ptStack' = SetTop([Top EXCEPT !.pc = "children", !.todo = q])
            /\ tracker_lock' = "held"
            /\ UNCHANGED ptResult
    /\ UNCHANGED <<active_progress, progress_history, now, ptOps, emitted,
                   panelVars, auditVars, dashVars, clientVars, extVars, sequence, seqVars>>

\* for child_id in list(progress_data["children"]):
\*     self.complete(child_id, success)
PtCompleteChildren ==
    /\ ptStack # <<>>
    /\ Top.pc = "children"
    /\ IF Top.todo # <<>>
       THEN ptStack' = Append(SetTop([Top EXCEPT !.todo = Tail(@)]),
                              [id |-> Head(Top.todo), success |-> Top.success,
                               pc |-> "acquire", todo |-> <<>>])
       ELSE ptStack' = SetTop([Top EXCEPT !.pc = "store"])
    /\ UNCHANGED <<active_progress, progress_history, tracker_lock, now, ptResult, ptOps,
                   emitted, panelVars, auditVars, dashVars, clientVars, extVars, sequence, seqVars>>

\* Store in history, del self._active_progress[progress_id], leave the with
\* block, then self.client.progress(..., status=status, details=details)
PtCompleteStore ==
    /\ ptStack # <<>>
    /\ Top.pc = "store"
    /\ LET old == active_progress[Top.id]
           rec == [old EXCEPT !.end_time = now, !.success = Top.success,
                              !.duration = now - old.start_time]
           call == ClientProgress(4, {"unit", "status", "details"},
                       ProgressEnvelope(Top.id, old.total, old.total,
                                        IF Top.success THEN "completed" ELSE "error",
                                        -1))
       IN /\ progress_history' = Put(progress_history, Top.id, rec)
          /\ active_progress' = Del(active_progress, Top.id)
          /\ tracker_lock' = "free"
          /\ emitted' = call.emitted
          /\ ptStack' = Pop
          /\ ptResult' = IF Pop = <<>>
                         THEN [ptResult EXCEPT
                                 !.result = IF call.raised THEN "raised" ELSE "returned"]
                         ELSE ptResult
    /\ UNCHANGED <<now, ptOps, panelVars, auditVars, dashVars, clientVars, extVars, sequence, seqVars>>

\* time.time() moves on.
PtTick ==
    /\ now < MaxClock
    /\ now' = now + 1
    /\ UNCHANGED <<active_progress, progress_history, tracker_lock, ptStack, ptResult,
                   ptOps, emitted, panelVars, auditVars, dashVars, clientVars, extVars, sequence, seqVars>>

\* The parent_id the application gives when it starts id.
ParentIds(id) == IF id = "child" THEN {"none", "parent"} ELSE {"none"}

PtCompleteStep == PtCompleteAcquire \/ PtCompleteChildren \/ PtCompleteStore

\* SpecProgress: one application thread that uses a ProgressTracker.
InitProgress == ClientInit(BufferSize, TRUE, TRUE, [p \in Producers |-> 0], 0, 0)

NextProgress ==
    \/ \E id \in Ids :
          \/ \E parent \in ParentIds(id) : PtStart(id, MaxTotal, parent)
          \/ \E c \in 0..MaxTotal : PtUpdate(id, c)
          \/ \E b \in BOOLEAN : PtCompleteCall(id, b)
    \/ PtCompleteAcquire
    \/ PtCompleteChildren
    \/ PtCompleteStore
    \/ PtTick

SpecProgress == InitProgress /\ [][NextProgress]_vars

\* C15 (as claimed): every call of start, update and complete returns
\* normally, and when complete(t, success) of an active t has returned, t is
\* absent from the active map and in history with that success and a
\* duration >= 0.
C15_StartUpdateComplete ==
    /\ ptResult.result # "raised"
    /\ (ptResult.op = "complete" /\ ptResult.wasActive /\ ptResult.result = "returned")
          => /\ ptResult.id \notin DOMAIN active_progress
             /\ ptResult.id \in DOMAIN progress_history
             /\ progress_history[ptResult.id].success = ptResult.success
             /\ progress_history[ptResult.id].duration >= 0

\* C16 (as claimed): update(id, current) on an active id stores current,
\* emits exactly one hawk.progress envelope with id, current, total and
\* status in_progress, and returns normally.
C16_UpdateEmitsOneEnvelope ==
    [][(ptOps' # ptOps /\ ptResult'.op = "update" /\ ptResult'.wasActive)
          => /\ active_progress'[ptResult'.id].current = ptResult'.cur
             /\ ptResult'.result = "returned"
             /\ Len(emitted') = Len(emitted) + 1
             /\ emitted'[Len(emitted')].id = ptResult'.id
             /\ emitted'[Len(emitted')].current = ptResult'.cur
             /\ emitted'[Len(emitted')].status = "in_progress"]_vars

\* C17 (as claimed): a call of complete() can always take its next step, so
\* the children of a parent are completed, and a record in history whose
\* child is in history ended no earlier than the child.
C17_ChildrenCompletedFirst ==
    /\ ptStack # <<>> => ENABLED PtCompleteStep
    /\ \A p \in DOMAIN progress_history :
          \A ch \in progress_history[p].children :
              ch \in DOMAIN progress_history
                  => progress_history[ch].end_time <= progress_history[p].end_time

\* C33: complete() never blocks: the thread inside complete() never waits
\* for the tracker's lock while that lock is held (the model has one thread,
\* so the holder is the waiting thread itself, in an outer frame of
\* complete()), for a record with children active or already completed;
\* and the lock is free whenever no call of complete() is running.
C33_CompleteNeverBlocks ==
    /\ ~(ptStack # <<>> /\ Top.pc = "acquire" /\ tracker_lock = "held")
    /\ ptStack = <<>> => tracker_lock = "free"

\* ---------------------------------------------------------- ConfigPanel
\* the largest integer the application passes as a value
MaxValue == 3
\* calls of the panel in a run
MaxPanelOps == 4

IntVal(n) == [t |-> "int", n |-> n, s |-> ""]
StrVal(x) == [t |-> "str", n |-> 0, s |-> x]

\* The values the application passes to add_field (default) and set_value.
PanelValues == {IntVal(n) : n \in 0..MaxValue} \cup {StrVal("a"), StrVal("b"), StrVal("2")}

\* int(value) of a str: the strings int() accepts, and what it returns
NumericStrings == {"2"}
ParseInt(x) == IF x = "2" THEN 2 ELSE 0

\* A ConfigField; min_value / max_value -1 stand for None, validation_func
\* is what the function does with a value.
Field(ft, d, lo, hi, opts, vf) ==
    [field_type |-> ft, default |-> d, min_value |-> lo, max_value |-> hi,
     options |-> opts, validation_func |-> vf]

\* The definitions the application registers for a key.
FieldChoices(k) ==
    IF k = "n"
    THEN {Field("integer", d, 1, 2, {}, vf) :
             d \in {NoValue, IntVal(1), IntVal(2)}, vf \in {"none", "reject", "raises"}}
    ELSE {Field("enum", d, -1, -1, {"a"}, "none") : d \in {NoValue, StrVal("a")}}

\* Type validation of _validate_value: whether it lets the value through, and
\* the local value it goes on with.
Coerce(f, v) ==
    IF f.field_type = "integer" /\ v.t # "int"
    THEN IF v.s \in NumericStrings THEN [ok |-> TRUE, w |-> IntVal(ParseInt(v.s))]
         ELSE [ok |-> FALSE, w |-> v]
    ELSE IF f.field_type = "enum" /\ f.options # {} /\ ~(v.t = "str" /\ v.s \in f.options)
    THEN [ok |-> FALSE, w |-> v]
    ELSE [ok |-> TRUE, w |-> v]

\* Range validation; comparing a str with a number raises TypeError, which
\* the except clause turns into False.
InRangeAlways(f, w) == TRUE
InRange(f, w) ==
    /\ f.min_value # -1 => (w.t = "int" /\ ~(w.n < f.min_value))
    /\ f.max_value # -1 => (w.t = "int" /\ ~(w.n > f.max_value))

\* Custom validation: a function that returns False or raises rejects.
CustomAccepts(f) == f.validation_func \in {"none", "accept"}

\* ConfigPanel._validate_value(field, value)
ValidateValue(f, v) ==
    /\ Coerce(f, v).ok
    /\ InRange(f, Coerce(f, v).w)
    /\ CustomAccepts(f)

\* the application thread is not inside a call of the panel
PanelIdle == cfOps < MaxPanelOps /\ cfStack = <<>>

\* if key not in self._values and default is not None
DefaultAppliesAlways(k, d) == d # NoValue
DefaultApplies(k, d) == values[k] = NoValue /\ d # NoValue

\* ConfigPanel.add_field(key, field_type, ...) and _send_config_field
CfAddField(k, f) ==
    /\ PanelIdle
    /\ fields' = [fields EXCEPT ![k] = f]
    /\ values' = IF DefaultApplies(k, f.default) THEN [values EXCEPT ![k] = f.default]
                 ELSE values
    /\ emitted' = Append(emitted, [method |-> "hawk.config", kind |-> "field", key |-> k,
                                   value |-> values'[k]])
    /\ cfResult' = [op |-> "add_field", key |-> k, value |-> f.default,
                    result |-> "returned"]
    /\ cfOps' = cfOps + 1
    /\ UNCHANGED <<callbacks, config_file, saves, callbackLog, trackerVars, auditVars, dashVars,
                   clientVars, extVars, sequence, seqVars>>

\* ConfigPanel.on_change(key, callback)
CfOnChange(k, b) ==
    /\ PanelIdle
    /\ callbacks' = [callbacks EXCEPT ![k] = b]
    /\ cfResult' = [op |-> "on_change", key |-> k, value |-> NoValue, result |-> "returned"]
    /\ cfOps' = cfOps + 1
    /\ UNCHANGED <<fields, values, config_file, saves, callbackLog, emitted, trackerVars, auditVars, dashVars,
                   clientVars, extVars, sequence, seqVars>>

\* ConfigPanel.save_to_file(filename)
CfSaveToFile ==
    /\ PanelIdle
    /\ config_file' = TRUE
    /\ saves' = saves + 1
    /\ cfResult' = [op |-> "save_to_file", key |-> "none", value |-> NoValue,
                    result |-> "returned"]
    /\ cfOps' = cfOps + 1
    /\ UNCHANGED <<fields, values, callbacks, callbackLog, emitted, trackerVars, auditVars, dashVars,
                   clientVars, extVars, sequence, seqVars>>

\* try: self._callbacks[key](key, old_value, value)
\* except Exception as e: self.client.error(...): what set_value returns
\* after a callback that behaves as b.
CallbackPropagates(b) == IF b = "raises" THEN "raised" ELSE "True"
CallbackCaught(b) == "True"

\* ConfigPanel.set_value(key, value) with validate=True
CfSetValue(k, v) ==
    /\ PanelIdle
    /\ cfOps' = cfOps + 1
    /\ IF fields[k] = NoField
       THEN /\ cfResult' = [op |-> "set_value", key |-> k, value |-> v,
                            result |-> "ValueError"]
            /\ UNCHANGED <<values, emitted, callbackLog, saves>>
       ELSE IF ~ValidateValue(fields[k], v)
       THEN /\ cfResult' = [op |-> "set_value", key |-> k, value |-> v,
                            result |-> "False"]
            /\ UNCHANGED <<values, emitted, callbackLog, saves>>
       ELSE /\ values' = [values EXCEPT ![k] = v]
            /\ callbackLog' = IF callbacks[k] # "none"
                              THEN Append(callbackLog,
                                          [key |-> k, old |-> values[k], new |-> v])
                              ELSE callbackLog
            /\ emitted' = emitted
                  \o <<[method |-> "hawk.config", kind |-> "update", key |-> k, value |-> v]>>
                  \o (IF callbacks[k] = "raises"
                      THEN <<[method |-> "hawk.log", kind |-> "error", key |-> k,
                              value |-> v]>>
                      ELSE <<>>)
            /\ saves' = IF config_file THEN saves + 1 ELSE saves
            /\ cfResult' = [op |-> "set_value", key |-> k, value |-> v,
                            result |-> CallbackCaught(callbacks[k])]
    /\ UNCHANGED <<fields, callbacks, config_file, trackerVars, auditVars, dashVars, clientVars, extVars, sequence,
                   seqVars>>

\* ConfigPanel.get_value(key)
CfGetValue(k) ==
    /\ PanelIdle
    /\ cfResult' = [op |-> "get_value", key |-> k, value |-> values[k],
                    result |-> "returned"]
    /\ cfOps' = cfOps + 1
    /\ UNCHANGED <<fields, values, callbacks, config_file, saves, callbackLog, emitted,
                   trackerVars, auditVars, dashVars, clientVars, extVars, sequence, seqVars>>

\* SpecConfig: one application thread that uses a ConfigPanel.
InitConfig == ClientInit(BufferSize, TRUE, TRUE, [p \in Producers |-> 0], 0, 0)

NextConfig ==
    \/ \E k \in Keys :
          \/ \E f \in FieldChoices(k) : CfAddField(k, f)
          \/ \E b \in {"returns", "raises"} : CfOnChange(k, b)
          \/ \E v \in PanelValues : CfSetValue(k, v)
          \/ CfGetValue(k)
    \/ CfSaveToFile

SpecConfig == InitConfig /\ [][NextConfig]_vars

\* C18: set_value with validation is all-or-nothing. A value that fails the
\* type check (a non-numeric str for an integer field), the range check
\* (below min_value or above max_value), the enum check (not one of the
\* options) or the custom check (validation_func returns False or raises)
\* makes the call return False and leaves the stored values, the emitted
\* envelopes, the callbacks and the saved file alone; any other value makes
\* it return True and is stored, and get_value returns what is stored.
C18_ValidationAllOrNothing ==
    [][(cfOps' # cfOps /\ cfResult'.op \in {"set_value", "get_value"})
          => LET k == cfResult'.key
                 v == cfResult'.value
                 f == fields[k]
                 num == IF v.t = "int" THEN v.n ELSE ParseInt(v.s)
                 failsType == f.field_type = "integer" /\ v.t = "str"
                              /\ v.s \notin NumericStrings
                 failsRange == /\ f.field_type = "integer"
                               /\ \/ f.min_value # -1 /\ num < f.min_value
                                  \/ f.max_value # -1 /\ num > f.max_value
                 failsEnum == f.field_type = "enum"
                              /\ (v.t # "str" \/ v.s \notin f.options)
                 failsCustom == f.validation_func \in {"reject", "raises"}
             IN /\ cfResult'.op = "get_value" => (v = values[k] /\ values' = values)
                /\ (cfResult'.op = "set_value" /\ f # NoField)
                      => IF failsType \/ failsRange \/ failsEnum \/ failsCustom
                         THEN /\ cfResult'.result = "False"
                              /\ values' = values
                              /\ emitted' = emitted
                              /\ callbackLog' = callbackLog
                              /\ saves' = saves
                         ELSE /\ cfResult'.result = "True"
                              /\ values'[k] = v]_vars

\* C18 witness: set_value("n", MaxValue), above max_value, has returned
\* False on a panel with a stored value, a change callback and a config file.
C18_Witness ==
    /\ cfResult.op = "set_value"
    /\ cfResult.key = "n"
    /\ cfResult.value = IntVal(MaxValue)
    /\ cfResult.result = "False"
    /\ values["n"] = IntVal(1)
    /\ callbacks["n"] # "none"
    /\ config_file

\* C19: add_field replaces the definition of the key and emits exactly one
\* field-definition envelope for it; when the key already has a stored
\* value, no stored value changes.
C19_ReAddKeepsValue ==
    [][(cfOps' # cfOps /\ cfResult'.op = "add_field")
          => LET k == cfResult'.key
             IN /\ fields'[k] \in FieldChoices(k)
                /\ fields'[k].default = cfResult'.value
                /\ values[k] # NoValue => values' = values
                /\ Len(emitted') = Len(emitted) + 1
                /\ emitted'[Len(emitted')].kind = "field"
                /\ emitted'[Len(emitted')].key = k]_vars

\* C19 witness: add_field has been called again with another default for a
\* key whose stored value was set by set_value, and the value is still there.
C19_Witness ==
    /\ cfResult.op = "add_field"
    /\ cfResult.key = "n"
    /\ cfResult.value = IntVal(1)
    /\ values["n"] = IntVal(2)
    /\ fields["n"].default = IntVal(1)
    /\ Len(emitted) = 3

\* C20: a set_value whose value passes validation invokes the callback
\* registered for the key exactly once, inside the call, with (key, old
\* value, new value), returns True and stores the value, whether the callback
\* returns or raises; without a callback nothing is invoked.
C20_CallbackOnceNeverPropagates ==
    [][(cfOps' # cfOps /\ cfResult'.op = "set_value"
            /\ fields[cfResult'.key] # NoField
            /\ ValidateValue(fields[cfResult'.key], cfResult'.value))
          => LET k == cfResult'.key
                 v == cfResult'.value
             IN IF callbacks[k] # "none"
                THEN /\ callbackLog' = Append(callbackLog,
                                              [key |-> k, old |-> values[k], new |-> v])
                     /\ cfResult'.result = "True"
                     /\ values'[k] = v
                ELSE callbackLog' = callbackLog]_vars

\* C20 witness: set_value has returned True for a key whose callback raises;
\* the callback was called once, with the old and the new value.
C20_Witness ==
    /\ cfResult.op = "set_value"
    /\ cfResult.result = "True"
    /\ callbacks[cfResult.key] = "raises"
    /\ Len(callbackLog) = 1
    /\ callbackLog[1].old # NoValue
    /\ callbackLog[1].new = cfResult.value
    /\ values[cfResult.key] = cfResult.value

\* ------------------------------------------- claims on the transport
\* C11 (as claimed): sequence numbers are drawn at enqueue, so once every
\* message that is neither evicted nor given up has been written, an evicted
\* message shows as a gap: the numbers at the sink are not 1..n.
C11_DroppedMessageLeavesGap ==
    LET ws == {WrittenItems[i].seq : i \in DOMAIN WrittenItems}
    IN (/\ evicted # {}
        /\ discarded = {}
        /\ ws # {}
        /\ buffer = <<>> /\ batch = <<>> /\ remaining = <<>>
        /\ \A t \in Threads : fl[t] = <<>>
        /\ \A p \in Producers : ppc[p] = "idle")
          => ws # 1..Cardinality(ws)

\* C12 (as claimed): the sequence numbers of the envelopes at the sink, read
\* in the order they were written, are strictly increasing.
C12_SinkInSequenceOrder ==
    \A i, j \in DOMAIN WrittenItems :
        i < j => WrittenItems[i].seq < WrittenItems[j].seq

\* C13: with thread_safe on, no thread that calls log / metric / progress /
\* event (or _send_message_async for a widget or a config panel) is ever
\* inside _flush_batch, and no line at the sink, and no failed write, is the
\* work of such a thread.
C13_ApiCallsNeverWrite ==
    thread_safe =>
        /\ \A p \in Producers : ppc[p] # "direct" /\ fl[p] = <<>>
        /\ \A i \in DOMAIN sink : sink[i].by \notin Producers
        /\ \A d \in discarded : d.by \notin Producers

\* C13 witness: with thread_safe on both producer threads have made all
\* their calls and the worker has written a line.
C13_Witness ==
    /\ thread_safe
    /\ \A p \in Producers : sent[p] = quota[p] /\ ppc[p] = "idle"
    /\ \E i \in DOMAIN sink : sink[i].by = Worker

MaxAuditCalls == 3
\* writes to the audit file that fail in a run (open or write raises)
MaxWriteFaults == 1
\* lines of the audit file changed from outside in a run
MaxAlter == 1
\* calls of verify_integrity made in a run
MaxVerify == 2

EventTypes == {"access", "config_change", "command"}

\* What the wrappers put in data: "ok" is a dict json.dumps can encode, "bad"
\* one it cannot (details, args or output holding an arbitrary object).
\* log_config_change passes user, key, str(old_value), str(new_value).
Payloads(et) == IF et = "config_change" THEN {"ok"} ELSE {"ok", "bad"}

\* The keys of an event in the order sort_keys=True writes them.
KeyOrder == <<"checksum", "data", "event_type", "sequence", "session_id", "source_ip",
              "timestamp">>

\* json.dumps(event, sort_keys=True): the key/value pairs of the keys the
\* dict has, in sorted order.
Dumps(e) ==
    LET ks == SelectSeq(KeyOrder, LAMBDA k : k \in DOMAIN e)
    IN [i \in 1..Len(ks) |-> <<ks[i], e[ks[i]]>>]

\* hashlib.sha256(s.encode()).hexdigest()[:16]: equal for equal strings,
\* and taken to differ for different ones.
Sha256(str) == [sha256 |-> str]

\* The event dict built by _log_audit_event, "checksum": None included.
AuditEvent(n, et, d) ==
    [timestamp |-> "now", session_id |-> "uuid", sequence |-> n, event_type |-> et,
     data |-> d, source_ip |-> "ip", checksum |-> "null"]

\* event["checksum"] = sha256(json.dumps(event, sort_keys=True))[:16],
\* computed while event["checksum"] is None.
WithChecksum(e) == [e EXCEPT !.checksum = Sha256(Dumps(e))]

\* event.pop("checksum", None): the dict without the key.
PopChecksum(e) == [k \in DOMAIN e \ {"checksum"} |-> e[k]]

\* A line of the file: json.dumps(event) + '\n' read back by
\* json.loads(line.strip()) is the event; a line changed from outside is a
\* record with a changed field ("json"), text that is not JSON ("text"), a
\* JSON value that is not an object ("value") or bytes that are not UTF-8
\* ("bytes").
JsonLine(e) == [kind |-> "json", obj |-> e]
AlterKinds == {"field", "text", "value", "bytes"}
Altered(line, how) ==
    IF how = "field" THEN JsonLine([line.obj EXCEPT !.data = "changed"])
    ELSE [kind |-> how, obj |-> NoEvent]

\* log_access / log_config_change / log_command: the wrapper builds data
\* and calls _log_audit_event.
AuLogCall(t, et, d) ==
    /\ apc[t] = "idle"
    /\ auCalls < MaxAuditCalls
    /\ auCalls' = auCalls + 1
    /\ aev' = [aev EXCEPT ![t] = [event_type |-> et, data |-> d]]
    /\ apc' = [apc EXCEPT ![t] = "acquire"]
    /\ UNCHANGED <<audit_sequence, audit_lock, audit_file, auFaults, auReturned, auAltered,
                   verifyResult, auVerifies, emitted, trackerVars, panelVars, dashVars, clientVars, extVars,
                   sequence, seqVars>>

\* with self._lock:
AuAcquire(t) ==
    /\ apc[t] = "acquire"
    /\ audit_lock = "free"
    /\ audit_lock' = t
    /\ apc' = [apc EXCEPT ![t] = "stamp"]
    /\ UNCHANGED <<audit_sequence, audit_file, aev, auFaults, auCalls, auReturned, auAltered,
                   verifyResult, auVerifies, emitted, trackerVars, panelVars, dashVars, clientVars, extVars,
                   sequence, seqVars>>

\* self._sequence += 1; event = {...}; event_str = json.dumps(event,
\* sort_keys=True), which raises TypeError for data it cannot encode: the
\* with block releases the lock and the call raises.
AuStamp(t) ==
    /\ apc[t] = "stamp"
    /\ audit_sequence' = audit_sequence + 1
    /\ IF aev[t].data = "bad"
       THEN /\ audit_lock' = "free"
            /\ aev' = [aev EXCEPT ![t] = NoEvent]
            /\ apc' = [apc EXCEPT ![t] = "idle"]
       ELSE /\ aev' = [aev EXCEPT ![t] = WithChecksum(AuditEvent(audit_sequence + 1,
                                                                aev[t].event_type,
                                                                aev[t].data))]
            /\ apc' = [apc EXCEPT ![t] = "write"]
            /\ UNCHANGED audit_lock
    /\ UNCHANGED <<audit_file, auFaults, auCalls, auReturned, auAltered, verifyResult,
                   auVerifies, emitted, trackerVars, panelVars, dashVars, clientVars, extVars, sequence, seqVars>>

\* with open(self.audit_file, 'a') as f: f.write(json.dumps(event) + '\n')
\* except Exception as e: self.client.error("Audit log write failed: ...")
AuWrite(t) ==
    /\ apc[t] = "write"
    /\ \/ /\ audit_file' = Append(audit_file, JsonLine(aev[t]))
          /\ UNCHANGED <<auFaults, emitted>>
       \/ /\ auFaults < MaxWriteFaults
          /\ auFaults' = auFaults + 1
          /\ emitted' = Append(emitted, [method |-> "hawk.log", kind |-> "error",
                                         sequence |-> aev[t].sequence])
          /\ UNCHANGED audit_file
    /\ apc' = [apc EXCEPT ![t] = "event"]
    /\ UNCHANGED <<audit_sequence, audit_lock, aev, auCalls, auReturned, auAltered,
                   verifyResult, auVerifies, trackerVars, panelVars, dashVars, clientVars, extVars, sequence,
                   seqVars>>

\* self.client.event("audit_event", ..., data=event); the with block ends
AuEvent(t) ==
    /\ apc[t] = "event"
    /\ emitted' = Append(emitted, [method |-> "hawk.event", kind |-> "audit_event",
                                   sequence |-> aev[t].sequence])
    /\ audit_lock' = "free"
    /\ aev' = [aev EXCEPT ![t] = NoEvent]
    /\ apc' = [apc EXCEPT ![t] = "idle"]
    /\ auReturned' = auReturned + 1
    /\ UNCHANGED <<audit_sequence, audit_file, auFaults, auCalls, auAltered, verifyResult,
                   auVerifies, trackerVars, panelVars, dashVars, clientVars, extVars, sequence, seqVars>>

\* Someone other than the AuditLogger changes line i of the file.
AuAlter(i, how) ==
    /\ auAltered < MaxAlter
    /\ i \in 1..Len(audit_file)
    /\ how = "field" => audit_file[i].kind = "json"
    /\ audit_file' = [audit_file EXCEPT ![i] = Altered(audit_file[i], how)]
    /\ auAltered' = auAltered + 1
    /\ UNCHANGED <<audit_sequence, audit_lock, apc, aev, auFaults, auCalls, auReturned,
                   verifyResult, auVerifies, emitted, trackerVars, panelVars, dashVars, clientVars, extVars,
                   sequence, seqVars>>

\* verify_integrity, one line: "verified" when the stored checksum equals
\* the one recomputed from the event without its checksum key, "corrupted"
\* when it differs or json.loads raises JSONDecodeError, "fatal" when the
\* line raises anything else (UnicodeDecodeError while reading it, or
\* event.pop on a value that is not a dict), which the outer except catches.
LineVerdict(line) ==
    IF line.kind \in {"bytes", "value"} THEN "fatal"
    ELSE IF line.kind = "text" THEN "corrupted"
    ELSE IF line.obj.checksum = Sha256(Dumps(PopChecksum(line.obj))) THEN "verified"
    ELSE "corrupted"

\* The lines {i : LineVerdict = v} among the first n lines.
Verdicts(n, v) == {i \in 1..n : LineVerdict(audit_file[i]) = v}

\* AuditLogger.verify_integrity()
AuVerify ==
    /\ auVerifies < MaxVerify
    /\ auVerifies' = auVerifies + 1
    /\ LET n == Len(audit_file)
           fatal == Verdicts(n, "fatal")
           first == CHOOSE i \in fatal : \A j \in fatal : i <= j
           read == IF fatal = {} THEN n ELSE first - 1
           verified == Cardinality(Verdicts(read, "verified"))
           corrupted == Cardinality(Verdicts(read, "corrupted"))
           warned == {i \in Verdicts(read, "corrupted") : audit_file[i].kind = "json"}
           seen == [lines |-> n, altered |-> auAltered,
                    kinds |-> {audit_file[i].kind : i \in 1..n}]
       IN /\ verifyResult' =
                IF n = 0
                THEN [status |-> "no_audit_file", verified |-> 0, corrupted |-> 0,
                      integrity |-> <<1, 1>>, file |-> seen]
                ELSE IF fatal # {}
                THEN [status |-> "error", verified |-> 0, corrupted |-> 0,
                      integrity |-> <<0, 0>>, file |-> seen]
                ELSE [status |-> "completed", verified |-> verified,
                      corrupted |-> corrupted,
                      integrity |-> <<verified, verified + corrupted>>, file |-> seen]
          /\ emitted' = emitted \o [i \in 1..Cardinality(warned) |->
                                       [method |-> "hawk.log", kind |-> "warn",
                                        sequence |-> 0]]
    /\ UNCHANGED <<audit_sequence, audit_lock, audit_file, apc, aev, auFaults, auCalls,
                   auReturned, auAltered, trackerVars, panelVars, dashVars, clientVars, extVars, sequence,
                   seqVars>>

\* SpecAudit: two threads that log to one AuditLogger, the file being
\* altered from outside, and verify_integrity().
InitAudit == ClientInit(BufferSize, TRUE, TRUE, [p \in Producers |-> 0], 0, 0)

NextAudit ==
    \/ \E t \in AuditCallers :
          \/ \E et \in EventTypes : \E d \in Payloads(et) : AuLogCall(t, et, d)
          \/ AuAcquire(t)
          \/ AuStamp(t)
          \/ AuWrite(t)
          \/ AuEvent(t)
    \/ \E i \in 1..MaxAuditCalls : \E how \in AlterKinds : AuAlter(i, how)
    \/ AuVerify

SpecAudit == InitAudit /\ [][NextAudit]_vars

\* C21: for an audit file that holds only records written by log_access /
\* log_config_change / log_command and was never modified, verify_integrity()
\* reports corrupted = 0, verified = the number of records in the file and
\* integrity = 1.0.
C21_UnmodifiedFileVerifies ==
    (verifyResult.status # "none" /\ verifyResult.file.altered = 0
        /\ verifyResult.file.lines > 0)
    => /\ verifyResult.status = "completed"
       /\ verifyResult.corrupted = 0
       /\ verifyResult.verified = verifyResult.file.lines
       /\ verifyResult.integrity = <<verifyResult.file.lines, verifyResult.file.lines>>

\* C22: after N valid records are written and exactly one line of the file
\* is then altered (a field of the record changed, or the line no longer
\* JSON), verify_integrity() reports N-1 verified and 1 corrupted.
C22_OneAlteredLineOneCorrupted ==
    (verifyResult.status # "none" /\ verifyResult.file.altered = 1
        /\ verifyResult.file.kinds \subseteq {"json", "text"})
    => /\ verifyResult.status = "completed"
       /\ verifyResult.verified = verifyResult.file.lines - 1
       /\ verifyResult.corrupted = 1

\* C23: under any interleaving of concurrent log_* calls on one AuditLogger
\* each call appends exactly one line, and the lines of the file carry the
\* sequence numbers 1, 2, 3, ... in file order with no duplicate and no gap.
C23_OneLinePerCallInSequence ==
    auAltered = 0
    => /\ \A i \in 1..Len(audit_file) : audit_file[i].obj.sequence = i
       /\ (\A t \in AuditCallers : apc[t] = "idle") => Len(audit_file) = auCalls

\* C24: verify_integrity() counts a line that cannot be parsed as one
\* corrupted line and goes on: the scan ends with status "completed" and
\* verified + corrupted is the number of lines of the file.
C24_UnparsableLineNotFatal ==
    (verifyResult.status # "none" /\ verifyResult.file.kinds \cap {"text", "bytes"} # {})
    => /\ verifyResult.status = "completed"
       /\ verifyResult.verified + verifyResult.corrupted = verifyResult.file.lines

\* -------------------------------------------------------------- Dashboard
\* self._max_cols
MaxCols == 12
\* refresh_rate of a widget that has a refresh thread, in clock ticks
RefreshRate == 2
\* the longest a data callback takes, in clock ticks
MaxLatency == 3
\* refresh threads started in a run
MaxThreads == 2
\* iterations the refresh threads start in a run
MaxPolls == 3
\* calls of remove_widget made in a run
MaxRemoves == 1

\* A dict of layout values is the set of its (key, value) pairs.
Get(d, k) == (CHOOSE kv \in d : kv[1] = k)[2]

\* WidgetConfig.__post_init__ / Dashboard._add_widget: the default layout
DefaultLayout == {<<"row", 0>>, <<"col", 0>>, <<"width", 4>>, <<"height", 3>>}
\* DashboardWidget.__init__: layout = layout_kwargs or {"width": 4, "height": 3}
DefaultSize == {<<"width", 4>>, <<"height", 3>>}

\* The **layout_kwargs of the add_* calls of a run: none, a size only, the
\* default layout spelled out, and an explicit position.
Width5 == {<<"width", 5>>, <<"height", 3>>}
Placed == {<<"row", 1>>, <<"col", 6>>, <<"width", 5>>, <<"height", 2>>}
LayoutKwargs == {{}, Width5, DefaultLayout, Placed}

\* Dashboard._auto_layout(width, height): the layout returned, given
\* self._next_row and self._next_col.
AutoLayout(width, height) ==
    LET wraps == next_col + width > MaxCols
        row == IF wraps THEN next_row + height ELSE next_row
        col == IF wraps THEN 0 ELSE next_col
    IN {<<"row", row>>, <<"col", col>>, <<"width", width>>, <<"height", height>>}

\* The widget ids in the order a run first uses them.
IdOrder == <<"w1", "w2", "w3", "w4">>
UsedIds == {wobj[h].widget_id : h \in 1..Len(wobj)}
NextIds == {IdOrder[i] : i \in 1..(IF Cardinality(UsedIds) < Len(IdOrder)
                                    THEN Cardinality(UsedIds) + 1 ELSE Len(IdOrder))}

ThreadCount == Cardinality({h \in Handles : rpc[h] # "none"})

\* The hawk.dashboard envelope of _send_widget_update, and the hawk.log
\* envelope of self.client.error in _refresh_worker.
DashEnvelope(h) ==
    [method |-> "hawk.dashboard", widget_id |-> wobj[h].widget_id,
     layout |-> wobj[h].layout]
RefreshError(h) ==
    [method |-> "hawk.log", kind |-> "error", widget_id |-> wobj[h].widget_id]

\* add_metric / add_status / add_chart / add_table / add_custom: the widget
\* is built, _add_widget lays it out, stores it and starts its refresh
\* thread, and the calling thread enters widget.get_data() for the initial
\* _send_widget_update. A run takes its widget ids in the order of IdOrder.
DashAdd(id, kw, rate) ==
    /\ dpc = "idle"
    /\ id \in NextIds
    /\ Len(wobj) < MaxWidgets
    /\ rate > 0 => ThreadCount < MaxThreads
    /\ LET h == Len(wobj) + 1
           given == IF kw = {} THEN DefaultSize ELSE kw
           auto == given = DefaultLayout
           layout == IF auto THEN AutoLayout(Get(given, "width"), Get(given, "height"))
                     ELSE given
       IN /\ wobj' = Append(wobj, [widget_id |-> id, kwargs |-> kw, layout |-> layout,
                                   refresh_rate |-> rate, enabled |-> TRUE])
          /\ next_row' = IF auto THEN Get(layout, "row") ELSE next_row
          /\ next_col' = IF auto THEN Get(layout, "col") + Get(layout, "width")
                         ELSE next_col
          /\ dash_widgets' = [dash_widgets EXCEPT ![id] = h]
          /\ refresh_threads' = IF rate > 0 THEN [refresh_threads EXCEPT ![id] = h]
                                ELSE refresh_threads
          /\ rpc' = IF rate > 0 THEN [rpc EXCEPT ![h] = "check"] ELSE rpc
          /\ dcur' = h
    /\ dpc' = "adding"
    /\ UNCHANGED <<dash_shutdown, slept, polls, joinLeft, removes, emitted, trackerVars,
                   panelVars, auditVars, clientVars, extVars, sequence, seqVars>>

\* _send_widget_update(widget) in the calling thread: get_data() returns
\* and the envelope is handed to the client; add_* returns the widget.
DashAddReturn ==
    /\ dpc = "adding"
    /\ emitted' = Append(emitted, DashEnvelope(dcur))
    /\ dpc' = "idle"
    /\ dcur' = 0
    /\ UNCHANGED <<dash_widgets, refresh_threads, dash_shutdown, next_row, next_col, wobj,
                   rpc, slept, polls, joinLeft, removes, trackerVars, panelVars, auditVars,
                   clientVars, extVars, sequence, seqVars>>

\* ... or get_data() raises, and add_* raises to the application.
DashAddRaise ==
    /\ dpc = "adding"
    /\ dpc' = "idle"
    /\ dcur' = 0
    /\ UNCHANGED <<dash_widgets, refresh_threads, dash_shutdown, next_row, next_col, wobj,
                   rpc, slept, polls, joinLeft, removes, emitted, trackerVars, panelVars,
                   auditVars, clientVars, extVars, sequence, seqVars>>

\* Dashboard.remove_widget(widget_id), for an id the run has added
DashRemove(id) ==
    /\ dpc = "idle"
    /\ id \in UsedIds
    /\ removes < MaxRemoves
    /\ removes' = removes + 1
    /\ dash_widgets' = [dash_widgets EXCEPT ![id] = 0]
    /\ refresh_threads' = [refresh_threads EXCEPT ![id] = 0]
    /\ UNCHANGED <<dash_shutdown, next_row, next_col, wobj, rpc, slept, polls, dpc, dcur,
                   joinLeft, emitted, trackerVars, panelVars, auditVars, clientVars, extVars,
                   sequence, seqVars>>

\* while not self._shutdown and widget.config.enabled
LoopConditionNoFlag(h) == wobj[h].enabled
LoopCondition(h) == ~dash_shutdown /\ wobj[h].enabled

\* _refresh_worker: the loop condition is evaluated; the thread either
\* starts an iteration (start_time = time.time(), data = widget.get_data())
\* or leaves the loop and ends.
RwCheck(h) ==
    /\ rpc[h] = "check"
    /\ IF LoopCondition(h)
       THEN /\ polls < MaxPolls
            /\ polls' = polls + 1
            /\ rpc' = [rpc EXCEPT ![h] = "call"]
       ELSE /\ rpc' = [rpc EXCEPT ![h] = "done"]
            /\ UNCHANGED polls
    /\ UNCHANGED <<dash_widgets, refresh_threads, dash_shutdown, next_row, next_col, wobj,
                   slept, dpc, dcur, joinLeft, removes, emitted, trackerVars, panelVars,
                   auditVars, clientVars, extVars, sequence, seqVars>>

Max0(x) == IF x > 0 THEN x ELSE 0

\* get_data() returns after lat ticks: _send_widget_update(widget, data),
\* the statistics, time.sleep(max(0, refresh_rate - refresh_time))
RwReturn(h, lat) ==
    /\ rpc[h] = "call"
    /\ emitted' = Append(emitted, DashEnvelope(h))
    /\ slept' = [slept EXCEPT ![h] = Max0(wobj[h].refresh_rate - lat)]
    /\ rpc' = [rpc EXCEPT ![h] = "sleep"]
    /\ UNCHANGED <<dash_widgets, refresh_threads, dash_shutdown, next_row, next_col, wobj,
                   polls, dpc, dcur, joinLeft, removes, trackerVars, panelVars, auditVars,
                   clientVars, extVars, sequence, seqVars>>

\* except Exception as e: where the thread is once the handler has logged
\* the error: in the time.sleep of the handler.
AfterExceptDies(h) == "done"
AfterExcept(h) == "backoff"

\* get_data() raises: self.client.error(...), time.sleep(refresh_rate)
RwRaise(h) ==
    /\ rpc[h] = "call"
    /\ emitted' = Append(emitted, RefreshError(h))
    /\ slept' = [slept EXCEPT ![h] = wobj[h].refresh_rate]
    /\ rpc' = [rpc EXCEPT ![h] = AfterExcept(h)]
    /\ UNCHANGED <<dash_widgets, refresh_threads, dash_shutdown, next_row, next_col, wobj,
                   polls, dpc, dcur, joinLeft, removes, trackerVars, panelVars, auditVars,
                   clientVars, extVars, sequence, seqVars>>

\* time.sleep returns, in the try block or in the handler
RwWake(h) ==
    /\ rpc[h] \in {"sleep", "backoff"}
    /\ rpc' = [rpc EXCEPT ![h] = "check"]
    /\ UNCHANGED <<dash_widgets, refresh_threads, dash_shutdown, next_row, next_col, wobj,
                   slept, polls, dpc, dcur, joinLeft, removes, emitted, trackerVars,
                   panelVars, auditVars, clientVars, extVars, sequence, seqVars>>

\* Dashboard.shutdown(): self._shutdown = True, then the threads of the
\* table are joined one after the other.
DashShutdown ==
    /\ dpc = "idle"
    /\ ~dash_shutdown
    /\ dash_shutdown' = TRUE
    /\ joinLeft' = {refresh_threads[id] : id \in WidgetIds} \ {0}
    /\ dpc' = "joining"
    /\ UNCHANGED <<dash_widgets, refresh_threads, next_row, next_col, wobj, rpc, slept,
                   polls, dcur, removes, emitted, trackerVars, panelVars, auditVars,
                   clientVars, extVars, sequence, seqVars>>

\* if thread.is_alive(): thread.join(timeout=1.0) comes back when the
\* thread has ended, and after one second when it has not.
JoinReturns(h) == TRUE

DashJoin(h) ==
    /\ dpc = "joining"
    /\ h \in joinLeft
    /\ JoinReturns(h)
    /\ joinLeft' = joinLeft \ {h}
    /\ UNCHANGED <<dash_widgets, refresh_threads, dash_shutdown, next_row, next_col, wobj,
                   rpc, slept, polls, dpc, dcur, removes, emitted, trackerVars, panelVars,
                   auditVars, clientVars, extVars, sequence, seqVars>>

\* shutdown() returns
DashShutdownReturn ==
    /\ dpc = "joining"
    /\ joinLeft = {}
    /\ dpc' = "idle"
    /\ UNCHANGED <<dash_widgets, refresh_threads, dash_shutdown, next_row, next_col, wobj,
                   rpc, slept, polls, dcur, joinLeft, removes, emitted, trackerVars,
                   panelVars, auditVars, clientVars, extVars, sequence, seqVars>>

\* SpecLayout: one application thread adds widgets that have no refresh
\* thread (refresh = 0), with every kind of layout arguments.
InitLayout == ClientInit(BufferSize, TRUE, TRUE, [p \in Producers |-> 0], 0, 0)

NextLayout ==
    \/ \E id \in WidgetIds : \E kw \in LayoutKwargs : DashAdd(id, kw, 0)
    \/ DashAddReturn
    \/ DashAddRaise
    \/ \E id \in WidgetIds : DashRemove(id)

SpecLayout == InitLayout /\ [][NextLayout]_vars

\* SpecDash: one application thread adds widgets that have a refresh
\* thread, removes widgets and shuts the dashboard down, while the refresh
\* threads run.
InitDash == ClientInit(BufferSize, TRUE, TRUE, [p \in Producers |-> 0], 0, 0)

NextDash ==
    \/ \E id \in WidgetIds : DashAdd(id, {}, RefreshRate)
    \/ DashAddReturn
    \/ DashAddRaise
    \/ \E id \in WidgetIds : DashRemove(id)
    \/ DashShutdown
    \/ \E h \in Handles :
          \/ RwCheck(h)
          \/ \E lat \in 0..MaxLatency : RwReturn(h, lat)
          \/ RwRaise(h)
          \/ RwWake(h)
          \/ DashJoin(h)
    \/ DashShutdownReturn

SpecDash == InitDash /\ [][NextDash]_vars

\* C25: widgets added without an explicit position are placed left to right
\* on the 12-column grid: three widgets of width 5 get columns 0, 5 and 10 on
\* row 0, and a fourth wraps to column 0 on the row equal to the height of
\* the previous row.
C25_AutoLayoutLeftToRight ==
    (Len(wobj) >= 3 /\ \A h \in 1..Len(wobj) : /\ wobj[h].kwargs = Width5
                                                /\ wobj[h].widget_id = IdOrder[h])
    => /\ \A h \in 1..3 : /\ <<"row", 0>> \in wobj[h].layout
                          /\ <<"col", 5 * (h - 1)>> \in wobj[h].layout
       /\ Len(wobj) >= 4 => /\ <<"row", 3>> \in wobj[4].layout
                            /\ <<"col", 0>> \in wobj[4].layout

\* C26: the data callback of one widget is never executed by two threads at
\* the same time, the add_* call and the refresh thread it starts included.
C26_CallbackNeverOverlaps ==
    \A h \in Handles : ~(dpc = "adding" /\ dcur = h /\ rpc[h] = "call")

\* C27: when the data callback raises inside the refresh loop, the loop does
\* not end: it hands one error log to the client, sleeps a full refresh
\* period, evaluates the loop condition again and, unless the dashboard was
\* shut down, polls again.
C27_FailingCallbackKeepsLoop ==
    [][\A h \in Handles :
          /\ (rpc[h] = "call" /\ rpc'[h] \notin {"call", "sleep"})
             => /\ rpc'[h] = "backoff"
                /\ emitted' = Append(emitted, RefreshError(h))
                /\ slept'[h] = wobj[h].refresh_rate
          /\ (rpc[h] = "backoff" /\ rpc'[h] # "backoff") => rpc'[h] = "check"
          /\ (rpc[h] = "check" /\ ~dash_shutdown /\ rpc'[h] # "check") => rpc'[h] = "call"
      ]_vars

\* The refresh loop of a widget has failed twice in a row and is waiting to
\* poll a third time.
C27_Witness ==
    \E h \in Handles :
        /\ rpc[h] = "backoff"
        /\ ThreadCount = 1
        /\ slept[h] = RefreshRate
        /\ Cardinality({i \in 1..Len(emitted) : emitted[i].method = "hawk.log"}) >= 2

\* C28: after remove_widget(id) the refresh loop of the removed widget exits
\* at its next wake: it starts no further iteration (no callback, no
\* hawk.dashboard envelope) for that widget.
C28_RemovedLoopExits ==
    [][\A h \in Handles :
          (rpc[h] = "check" /\ dash_widgets[wobj[h].widget_id] = 0) => rpc'[h] # "call"
      ]_vars

\* C29: once shutdown() has set the stop flag, a refresh loop that wakes
\* leaves the loop (the loops of widgets removed earlier too) and none starts
\* a new iteration; each join of shutdown() comes back, and shutdown()
\* returns when the threads of the table have been joined.
C29_ShutdownStopsLoops ==
    /\ \A h \in Handles :
          /\ (dash_shutdown /\ rpc[h] = "check")
             => /\ ENABLED (RwCheck(h) /\ rpc'[h] = "done")
                /\ ~ENABLED (RwCheck(h) /\ rpc'[h] = "call")
          /\ (dash_shutdown /\ rpc[h] \in {"sleep", "backoff"}) => ENABLED RwWake(h)
    /\ dpc = "joining"
       => /\ dash_shutdown
          /\ \A h \in joinLeft : ENABLED DashJoin(h)
          /\ joinLeft = {} => ENABLED DashShutdownReturn

\* shutdown() has returned; the loop of a widget of the table and the loop
\* of a widget removed earlier had both polled, and both have ended.
C29_Witness ==
    /\ dash_shutdown
    /\ dpc = "idle"
    /\ \E h, g \in Handles :
          /\ rpc[h] = "done" /\ slept[h] >= 0
          /\ refresh_threads[wobj[h].widget_id] = h
          /\ rpc[g] = "done" /\ slept[g] >= 0
          /\ dash_widgets[wobj[g].widget_id] = 0

\* C30: each widget id owns exactly one polling loop: after add_* calls
\* (one for a widget_id already present included) at most one live refresh
\* loop works for a given widget_id, and the thread table holds that loop.
C30_OneLoopPerWidgetId ==
    removes = 0
    => \A id \in WidgetIds :
          LET live == {h \in 1..Len(wobj) :
                          wobj[h].widget_id = id /\ rpc[h] \notin {"none", "done"}}
          IN /\ Cardinality(live) <= 1
             /\ live # {} => refresh_threads[id] \in live

BoBatchSize == 2
MaxAdd == 2
\* flushes of a run whose json.dumps or print raises
MaxPrintFaults == 1

\* add_log, add_metric, add_event: the method of the message; the threads
\* of a run call the three in turn, each thread starting with another one
BoMethods == <<"hawk.log", "hawk.metric", "hawk.event">>
BoMethodOf(t, n) == BoMethods[((n + (IF t = "b1" THEN 0 ELSE 1)) % 3) + 1]

\* `with self._lock:` lets a thread in when no thread holds the lock
BoLockNone == TRUE
BoLockFree == bo_lock = "free"

\* add_log/add_metric/add_event call _add_message, which waits for the lock.
\* The application calls flush() once its threads have ended, so no call
\* starts after flush() was called.
BoAddCall(t) ==
    /\ bopc[t] = "idle"
    /\ boCalls[t] < MaxAdd
    /\ bopc[BoApp] = "idle"
    /\ bopc' = [bopc EXCEPT ![t] = "acquire"]
    /\ boCalls' = [boCalls EXCEPT ![t] = @ + 1]
    /\ UNCHANGED <<message_batch, bo_lock, bo_stats, bo_local, boDue, boFaults, bo_printed>>
    /\ UNCHANGED <<emitted, trackerVars, panelVars, auditVars, dashVars, clientVars,
                   sequence, seqVars, restBatchOps>>

\* `with self._lock:` of _add_message, of timer_flush and of flush()
BoAcquire(t) ==
    /\ bopc[t] = "acquire"
    /\ BoLockFree
    /\ bo_lock' = t
    /\ bopc' = [bopc EXCEPT ![t] = IF t \in BoAdders THEN "append" ELSE "flush"]
    /\ UNCHANGED <<message_batch, bo_stats, bo_local, boDue, boCalls, boFaults, bo_printed>>
    /\ UNCHANGED <<emitted, trackerVars, panelVars, auditVars, dashVars, clientVars,
                   sequence, seqVars, restBatchOps>>

\* _add_message: self._message_batch.append(message), the message carrying
\* self.client._get_next_sequence()
BoAppend(t) ==
    /\ bopc[t] = "append"
    /\ sequence' = sequence + 1
    /\ message_batch' = Append(message_batch,
                               [method |-> BoMethodOf(t, boCalls[t]), by |-> t, n |-> boCalls[t],
                                sequence |-> sequence + 1])
    /\ bopc' = [bopc EXCEPT ![t] = "size"]
    /\ UNCHANGED <<bo_lock, bo_stats, bo_local, boDue, boCalls, boFaults, bo_printed>>
    /\ UNCHANGED <<emitted, trackerVars, panelVars, auditVars, dashVars, clientVars,
                   seqVars, restBatchOps>>

\* _add_message: if len(self._message_batch) >= self.batch_size: self._flush_now()
BoSizeCheck(t) ==
    /\ bopc[t] = "size"
    /\ bopc' = [bopc EXCEPT ![t] = IF Len(message_batch) >= BoBatchSize
                                    THEN "flush" ELSE "release"]
    /\ UNCHANGED <<message_batch, bo_lock, bo_stats, bo_local, boDue, boCalls, boFaults,
                   bo_printed>>
    /\ UNCHANGED <<emitted, trackerVars, panelVars, auditVars, dashVars, clientVars,
                   sequence, seqVars, restBatchOps>>

\* _flush_now: if not self._message_batch: return; batch = self._message_batch[:]
BoFlushCopy(t) ==
    /\ bopc[t] = "flush"
    /\ IF message_batch = <<>>
       THEN /\ bopc' = [bopc EXCEPT ![t] = "release"]
            /\ UNCHANGED bo_local
       ELSE /\ bopc' = [bopc EXCEPT ![t] = "clear"]
            /\ bo_local' = [bo_local EXCEPT ![t] = message_batch]
    /\ UNCHANGED <<message_batch, bo_lock, bo_stats, boDue, boCalls, boFaults, bo_printed>>
    /\ UNCHANGED <<emitted, trackerVars, panelVars, auditVars, dashVars, clientVars,
                   sequence, seqVars, restBatchOps>>

\* _flush_now: self._message_batch.clear()
BoFlushClear(t) ==
    /\ bopc[t] = "clear"
    /\ message_batch' = <<>>
    /\ bopc' = [bopc EXCEPT ![t] = "print"]
    /\ UNCHANGED <<bo_lock, bo_stats, bo_local, boDue, boCalls, boFaults, bo_printed>>
    /\ UNCHANGED <<emitted, trackerVars, panelVars, auditVars, dashVars, clientVars,
                   sequence, seqVars, restBatchOps>>

\* _flush_now: json.dumps, print and the statistics succeed;
\* self._last_flush = time.time()
BoFlushPrint(t) ==
    /\ bopc[t] = "print"
    /\ bo_printed' = bo_printed \o bo_local[t]
    /\ bo_stats' = [bo_stats EXCEPT !.messages_sent = @ + Len(bo_local[t]),
                                    !.batches_sent = @ + 1]
    /\ boDue' = FALSE
    /\ bo_local' = [bo_local EXCEPT ![t] = <<>>]
    /\ bopc' = [bopc EXCEPT ![t] = "release"]
    /\ UNCHANGED <<message_batch, bo_lock, boCalls, boFaults>>
    /\ UNCHANGED <<emitted, trackerVars, panelVars, auditVars, dashVars, clientVars,
                   sequence, seqVars, restBatchOps>>

\* _flush_now: json.dumps or print raises; except Exception counts the error
BoFlushError(t) ==
    /\ bopc[t] = "print"
    /\ boFaults < MaxPrintFaults
    /\ boFaults' = boFaults + 1
    /\ bo_stats' = [bo_stats EXCEPT !.flush_errors = @ + 1]
    /\ boDue' = FALSE
    /\ bo_local' = [bo_local EXCEPT ![t] = <<>>]
    /\ bopc' = [bopc EXCEPT ![t] = "release"]
    /\ UNCHANGED <<message_batch, bo_lock, boCalls, bo_printed>>
    /\ UNCHANGED <<emitted, trackerVars, panelVars, auditVars, dashVars, clientVars,
                   sequence, seqVars, restBatchOps>>

\* the end of `with self._lock:`; _add_message, timer_flush or flush() returns
BoRelease(t) ==
    /\ bopc[t] = "release"
    /\ bo_lock' = "free"
    /\ bopc' = [bopc EXCEPT ![t] = IF t = BoApp THEN "returned" ELSE "idle"]
    /\ UNCHANGED <<message_batch, bo_stats, bo_local, boDue, boCalls, boFaults, bo_printed>>
    /\ UNCHANGED <<emitted, trackerVars, panelVars, auditVars, dashVars, clientVars,
                   sequence, seqVars, restBatchOps>>

\* time passes: flush_interval since self._last_flush
BoTick ==
    /\ ~boDue
    /\ boDue' = TRUE
    /\ UNCHANGED <<message_batch, bo_lock, bo_stats, bopc, bo_local, boCalls, boFaults,
                   bo_printed>>
    /\ UNCHANGED <<emitted, trackerVars, panelVars, auditVars, dashVars, clientVars,
                   sequence, seqVars, restBatchOps>>

\* timer_flush: the interval has passed and the batch is not empty (read
\* without the lock), so it goes for the lock; the timer is rescheduled
\* while the client is not shut down
BoTimerCheck ==
    /\ bopc[BoTimer] = "idle"
    /\ ~shutdownFlag
    /\ boDue /\ message_batch # <<>>
    /\ bopc' = [bopc EXCEPT ![BoTimer] = "acquire"]
    /\ UNCHANGED <<message_batch, bo_lock, bo_stats, bo_local, boDue, boCalls, boFaults,
                   bo_printed>>
    /\ UNCHANGED <<emitted, trackerVars, panelVars, auditVars, dashVars, clientVars,
                   sequence, seqVars, restBatchOps>>

\* flush(), called once the threads that add have ended
BoFlushCall ==
    /\ bopc[BoApp] = "idle"
    /\ \A t \in BoAdders : bopc[t] = "idle"
    /\ bopc' = [bopc EXCEPT ![BoApp] = "acquire"]
    /\ UNCHANGED <<message_batch, bo_lock, bo_stats, bo_local, boDue, boCalls, boFaults,
                   bo_printed>>
    /\ UNCHANGED <<emitted, trackerVars, panelVars, auditVars, dashVars, clientVars,
                   sequence, seqVars, restBatchOps>>

InitBatchOps == ClientInit(BufferSize, TRUE, TRUE, [p \in Producers |-> 0], 0, 0)

NextBatchOps ==
    \/ \E t \in BoAdders : BoAddCall(t)
    \/ \E t \in BoThreads : BoAcquire(t)
    \/ \E t \in BoAdders : BoAppend(t)
    \/ \E t \in BoAdders : BoSizeCheck(t)
    \/ \E t \in BoThreads : BoFlushCopy(t)
    \/ \E t \in BoThreads : BoFlushClear(t)
    \/ \E t \in BoThreads : BoFlushPrint(t)
    \/ \E t \in BoThreads : BoFlushError(t)
    \/ \E t \in BoThreads : BoRelease(t)
    \/ BoTick
    \/ BoTimerCheck
    \/ BoFlushCall

SpecBatchOps == InitBatchOps /\ [][NextBatchOps]_vars

\* the messages appended so far, by all threads
BoAdded == boCalls["b1"] + boCalls["b2"]

RECURSIVE BoCount(_, _)
BoCount(s, m) ==
    IF s = <<>> THEN 0
    ELSE (IF Head(s) = m THEN 1 ELSE 0) + BoCount(Tail(s), m)

\* C31: once flush() has returned after the threads that add have ended, the
\* pending batch is empty and, when no json.dumps or print failed,
\* messages_sent equals the number of messages added and every message was
\* printed exactly once, whatever the interleaving of the adds with the
\* size-triggered and the timer-triggered flushes was.
C31_NoLossNoDuplicate ==
    bopc[BoApp] = "returned" /\ bopc[BoTimer] = "idle" =>
        /\ message_batch = <<>>
        /\ bo_stats.flush_errors = 0 =>
              /\ bo_stats.messages_sent = BoAdded
              /\ Len(bo_printed) = BoAdded
              /\ \A i \in 1..Len(bo_printed) : BoCount(bo_printed, bo_printed[i]) = 1

\* flush() returned after three messages were added by two threads, a
\* size-triggered and a timer-triggered flush having printed some of them
C31_Witness ==
    /\ bopc[BoApp] = "returned"
    /\ bopc[BoTimer] = "idle"
    /\ BoAdded = 3
    /\ boCalls["b1"] > 0 /\ boCalls["b2"] > 0
    /\ bo_stats.flush_errors = 0
    /\ bo_stats.batches_sent = 3
    /\ bo_stats.messages_sent = 3

\* ============================================== hawk.context
\* hawk.py: the context manager `context` and the module list _context_stack,
\* used by one thread.

\* with hawk.context(...) statements of a run, and the names they use
MaxCxOps == 3
CxNames == {"a", "b"}

\* client.info / client.success / client.error -> log -> _send_message_async:
\* the call raises when the client flushes directly (thread_safe off), the
\* write fails and graceful_fallback is off
CxLogCanRaise == ~thread_safe /\ ~graceful_fallback /\ faultsLeft > 0

\* log: context["hawk_context"] = " > ".join(_context_stack)
CxLogged(level) == [method |-> "hawk.log", level |-> level, hawk_context |-> context_stack]

Front(s) == SubSeq(s, 1, Len(s) - 1)

\* with hawk.context(name, log_entry, log_exit): _context_stack.append(name),
\* the entry log succeeds and the body starts
CxEnter(name, le, lx) ==
    /\ ~cxRaising
    /\ cxOps < MaxCxOps
    /\ cxOps' = cxOps + 1
    /\ cxBefore' = IF cxFrames = <<>> THEN context_stack ELSE cxBefore
    /\ context_stack' = Append(context_stack, name)
    /\ emitted' = IF le THEN Append(emitted, [method |-> "hawk.log", level |-> "INFO",
                                              hawk_context |-> Append(context_stack, name)])
                  ELSE emitted
    /\ cxFrames' = Append(cxFrames, [name |-> name, log_exit |-> lx])
    /\ UNCHANGED <<cxRaising, trackerVars, panelVars, auditVars, dashVars, restContext,
                   clientVars, sequence, seqVars>>

\* with hawk.context(name): _context_stack.append(name), then client.info
\* raises before the try statement is reached: the exception leaves the with
\* statement and no finally clause of this block runs
CxEnterRaise(name) ==
    /\ ~cxRaising
    /\ cxOps < MaxCxOps
    /\ CxLogCanRaise
    /\ cxOps' = cxOps + 1
    /\ cxBefore' = IF cxFrames = <<>> THEN context_stack ELSE cxBefore
    /\ context_stack' = Append(context_stack, name)
    /\ faultsLeft' = faultsLeft - 1
    /\ cxRaising' = TRUE
    /\ UNCHANGED <<cxFrames, emitted, trackerVars, panelVars, auditVars, dashVars,
                   restContext, sequence, seqVars>>
    /\ UNCHANGED <<configVars, buffer, shutdownFlag, sink, workerVars, flushVars,
                   producerVars, quota, badLeft, shutdownVars, historyVars>>

\* the body ends normally: client.success when log_exit; finally pop
CxExit ==
    /\ ~cxRaising
    /\ cxFrames # <<>>
    /\ emitted' = IF cxFrames[Len(cxFrames)].log_exit
                  THEN Append(emitted, CxLogged("SUCCESS")) ELSE emitted
    /\ context_stack' = Front(context_stack)
    /\ cxFrames' = Front(cxFrames)
    /\ UNCHANGED <<cxRaising, cxBefore, cxOps, trackerVars, panelVars, auditVars, dashVars,
                   restContext, clientVars, sequence, seqVars>>

\* the body ends normally and client.success raises inside the try:
\* except Exception: client.error(...); raise; finally: _context_stack.pop()
CxExitRaise ==
    /\ ~cxRaising
    /\ cxFrames # <<>>
    /\ cxFrames[Len(cxFrames)].log_exit
    /\ CxLogCanRaise
    /\ faultsLeft' = faultsLeft - 1
    /\ emitted' = Append(emitted, CxLogged("ERROR"))
    /\ context_stack' = Front(context_stack)
    /\ cxFrames' = Front(cxFrames)
    /\ cxRaising' = TRUE
    /\ UNCHANGED <<cxBefore, cxOps, trackerVars, panelVars, auditVars, dashVars,
                   restContext, sequence, seqVars>>
    /\ UNCHANGED <<configVars, buffer, shutdownFlag, sink, workerVars, flushVars,
                   producerVars, quota, badLeft, shutdownVars, historyVars>>

\* the body raises
CxBodyRaise ==
    /\ ~cxRaising
    /\ cxFrames # <<>>
    /\ cxRaising' = TRUE
    /\ UNCHANGED <<context_stack, cxFrames, cxBefore, cxOps, emitted, trackerVars,
                   panelVars, auditVars, dashVars, restContext, clientVars, sequence,
                   seqVars>>

\* an exception leaves the body of the innermost block:
\* except Exception: client.error(...); raise; finally: _context_stack.pop()
CxUnwind ==
    /\ cxRaising
    /\ cxFrames # <<>>
    /\ emitted' = Append(emitted, CxLogged("ERROR"))
    /\ context_stack' = Front(context_stack)
    /\ cxFrames' = Front(cxFrames)
    /\ UNCHANGED <<cxRaising, cxBefore, cxOps, trackerVars, panelVars, auditVars, dashVars,
                   restContext, clientVars, sequence, seqVars>>

\* the application catches the exception, inside an enclosing body or
\* outside every block
CxCatch ==
    /\ cxRaising
    /\ cxRaising' = FALSE
    /\ UNCHANGED <<context_stack, cxFrames, cxBefore, cxOps, emitted, trackerVars,
                   panelVars, auditVars, dashVars, restContext, clientVars, sequence,
                   seqVars>>

\* configure(thread_safe=..., graceful_fallback=...) and a sink that may
\* refuse one write
InitContext ==
    \E gf \in BOOLEAN, ts \in BOOLEAN, faults \in 0..MaxFaults :
        /\ ClientInit(BufferSize, gf, ts, [p \in Producers |-> 0], 0, faults)

NextContext ==
    \/ \E name \in CxNames, le \in BOOLEAN, lx \in BOOLEAN : CxEnter(name, le, lx)
    \/ \E name \in CxNames : CxEnterRaise(name)
    \/ CxExit
    \/ CxExitRaise
    \/ CxBodyRaise
    \/ CxUnwind
    \/ CxCatch

SpecContext == InitContext /\ [][NextContext]_vars

\* C32: in one thread, once every context block has exited (normally or by
\* an exception) _context_stack equals what it was before the outermost
\* block was entered.
C32_StackRestored ==
    cxFrames = <<>> /\ ~cxRaising => context_stack = cxBefore

\* ============================================== Dashboard._auto_layout
\* hawk_advanced.py: _auto_layout(width, height) called for a sequence of
\* widths and heights, on a Dashboard of 12 columns.

\* calls of _auto_layout in a run, the widths (<= 12) and the heights given
MaxLayoutCalls == 3
LayoutWidths == {4, 6, 8, 12}
MaxHeight == 3

\* _auto_layout(width, height): wraps to a new row when the width does not
\* fit, returns the layout and advances self._next_col
DashAutoLayout(width, height) ==
    /\ Len(layouts) < MaxLayoutCalls
    /\ LET wraps == next_col + width > MaxCols
           layout == AutoLayout(width, height)
       IN /\ next_row' = IF wraps THEN next_row + height ELSE next_row
          /\ next_col' = (IF wraps THEN 0 ELSE next_col) + width
          /\ layouts' = Append(layouts, [row |-> Get(layout, "row"),
                                         col |-> Get(layout, "col"),
                                         width |-> Get(layout, "width"),
                                         height |-> Get(layout, "height")])
    /\ UNCHANGED <<dash_widgets, refresh_threads, dash_shutdown, wobj, rpc, slept, polls,
                   dpc, dcur, joinLeft, removes>>
    /\ UNCHANGED <<emitted, trackerVars, panelVars, auditVars, restLayout,
                   clientVars, sequence, seqVars>>

InitAutoLayout == ClientInit(BufferSize, TRUE, TRUE, [p \in Producers |-> 0], 0, 0)

NextAutoLayout ==
    \E width \in LayoutWidths, height \in 1..MaxHeight : DashAutoLayout(width, height)

SpecAutoLayout == InitAutoLayout /\ [][NextAutoLayout]_vars

\* the cells of the grid a layout covers
Cells(l) == {<<r, c>> : r \in l.row..(l.row + l.height - 1),
                        c \in l.col..(l.col + l.width - 1)}

\* C34: the rectangles _auto_layout returns for widths <= 12 and any heights
\* stay on the grid (col + width <= 12) and no two of them share a cell.
C34_NoOverlapOnGrid ==
    /\ \A i \in 1..Len(layouts) : layouts[i].col + layouts[i].width <= MaxCols
    /\ \A i, j \in 1..Len(layouts) :
          i # j => Cells(layouts[i]) \cap Cells(layouts[j]) = {}

\* ============================================== ConfigPanel: self._lock
\* hawk_advanced.py: set_value, get_value and get_all_values take
\* self._lock; set_value calls the change callback inside its with block,
\* and the callback may call the panel again.

\* what a change callback does: it returns, it raises, or it calls
\* get_value, get_all_values or set_value of the same panel
CallbackKinds == {"returns", "raises", "get_value", "get_all_values", "set_value"}
Reenters(b) == b \in {"get_value", "get_all_values", "set_value"}

CfTop == cfStack[Len(cfStack)]
CfFrame(op, k, v, pc) == [op |-> op, key |-> k, value |-> v, pc |-> pc, result |-> "none"]

\* the application calls set_value(key, value), get_value(key) or
\* get_all_values(); the call goes for self._lock
CfCall(op, k, v) ==
    /\ PanelIdle
    /\ cfOps' = cfOps + 1
    /\ cfStack' = <<CfFrame(op, k, v, "acquire")>>
    /\ cfResult' = [op |-> op, key |-> k, value |-> v, result |-> "running"]
    /\ UNCHANGED <<fields, values, callbacks, config_file, saves, callbackLog, emitted,
                   panel_lock>>
    /\ UNCHANGED <<trackerVars, auditVars, dashVars, restLock, clientVars, sequence, seqVars>>

\* `with self._lock:` is entered when the lock is free, and the body runs:
\* get_value / get_all_values read self._values; set_value raises ValueError
\* for an unknown key, returns False for an invalid value, else stores the
\* value, sends the update and calls the callback, which may call the panel
CfAcquire ==
    /\ cfStack # <<>>
    /\ CfTop.pc = "acquire"
    /\ panel_lock = "free"
    /\ panel_lock' = "held"
    /\ LET k == CfTop.key
           v == CfTop.value
           done(r) == [cfStack EXCEPT ![Len(cfStack)] = [CfTop EXCEPT !.pc = "release",
                                                                      !.result = r]]
       IN IF CfTop.op # "set_value"
          THEN /\ cfStack' = done("returned")
               /\ UNCHANGED <<values, emitted, callbackLog, saves>>
          ELSE IF fields[k] = NoField
          THEN /\ cfStack' = done("ValueError")
               /\ UNCHANGED <<values, emitted, callbackLog, saves>>
          ELSE IF ~ValidateValue(fields[k], v)
          THEN /\ cfStack' = done("False")
               /\ UNCHANGED <<values, emitted, callbackLog, saves>>
          ELSE /\ values' = [values EXCEPT ![k] = v]
               /\ callbackLog' = IF callbacks[k] # "none"
                                 THEN Append(callbackLog,
                                             [key |-> k, old |-> values[k], new |-> v])
                                 ELSE callbackLog
               /\ emitted' = emitted
                     \o <<[method |-> "hawk.config", kind |-> "update", key |-> k,
                           value |-> v]>>
                     \o (IF callbacks[k] = "raises"
                         THEN <<[method |-> "hawk.log", kind |-> "error", key |-> k,
                                 value |-> v]>>
                         ELSE <<>>)
               /\ IF Reenters(callbacks[k])
                  THEN /\ cfStack' = Append(
                              [cfStack EXCEPT ![Len(cfStack)] =
                                  [CfTop EXCEPT !.pc = "callback"]],
                              CfFrame(callbacks[k], k, v, "acquire"))
                       /\ UNCHANGED saves
                  ELSE /\ cfStack' = done(CallbackCaught(callbacks[k]))
                       /\ saves' = IF config_file THEN saves + 1 ELSE saves
    /\ UNCHANGED <<fields, callbacks, config_file, cfResult, cfOps>>
    /\ UNCHANGED <<trackerVars, auditVars, dashVars, restLock, clientVars, sequence, seqVars>>

\* the with block is left and the call returns (or raises ValueError); a
\* set_value whose callback has returned goes on to the auto-save
CfRelease ==
    /\ cfStack # <<>>
    /\ CfTop.pc = "release"
    /\ panel_lock' = "free"
    /\ IF Len(cfStack) = 1
       THEN /\ cfStack' = <<>>
            /\ cfResult' = [cfResult EXCEPT !.result = CfTop.result]
            /\ UNCHANGED saves
       ELSE /\ cfStack' = <<[cfStack[1] EXCEPT !.pc = "release", !.result = "True"]>>
            /\ saves' = IF config_file THEN saves + 1 ELSE saves
            /\ UNCHANGED cfResult
    /\ UNCHANGED <<fields, values, callbacks, config_file, callbackLog, emitted, cfOps>>
    /\ UNCHANGED <<trackerVars, auditVars, dashVars, restLock, clientVars, sequence, seqVars>>

CfStep == CfAcquire \/ CfRelease

\* the values the application passes in this specification, and the
\* definitions it registers: those of FieldChoices, an integer field whose
\* default lies outside [min_value, max_value], and one with a wider range
LockValues == {IntVal(1), IntVal(3), StrVal("a"), StrVal("2")}
WideFieldChoices(k) ==
    IF k = "n"
    THEN FieldChoices(k) \cup {Field("integer", IntVal(3), 1, 2, {}, "none"),
                               Field("integer", NoValue, 1, 3, {}, "none")}
    ELSE FieldChoices(k)

InitPanelLock == ClientInit(BufferSize, TRUE, TRUE, [p \in Producers |-> 0], 0, 0)

NextPanelLock ==
    \/ \E k \in Keys :
          \/ \E f \in WideFieldChoices(k) : CfAddField(k, f)
          \/ \E b \in CallbackKinds : CfOnChange(k, b)
          \/ \E op \in {"set_value", "get_value", "get_all_values"}, v \in LockValues :
                CfCall(op, k, v)
    \/ CfAcquire
    \/ CfRelease

SpecPanelLock == InitPanelLock /\ [][NextPanelLock]_vars

\* C35: a change callback that calls get_value, get_all_values or set_value
\* of the same panel does not stop the set_value that triggered it: a thread
\* inside a call of the panel can always take its next step (it never waits
\* for a lock that it holds itself).
C35_CallbackMayReenter ==
    cfStack # <<>> => ENABLED CfStep

\* a value is of the declared type of the field, within [min_value,
\* max_value] and one of its options
Satisfies(f, v) ==
    /\ f.field_type = "integer" => v.t = "int"
    /\ (f.field_type = "enum" /\ f.options # {}) => (v.t = "str" /\ v.s \in f.options)
    /\ f.min_value # -1 => (v.t = "int" /\ v.n >= f.min_value)
    /\ f.max_value # -1 => (v.t = "int" /\ v.n <= f.max_value)

\* C36: after any sequence of add_field and set_value(validate=True), every
\* stored value satisfies the current definition of its field.
C36_StoredValuesValid ==
    \A k \in Keys :
        (fields[k] # NoField /\ values[k] # NoValue) => Satisfies(fields[k], values[k])

\* ============================================== hawk.batch
\* hawk.py: the context manager `batch`, used by several threads on the
\* global client.

\* with hawk.batch() statements one thread executes
MaxBatchEnters == 3
\* 60.0 s, the flush_interval inside a batch, in periods of 0.05 s
BatchInterval == 1200

\* batch(): original_interval = client._config.flush_interval
BtEnterRead(t) ==
    /\ btpc[t] \in {"idle", "body"}
    /\ btEnters[t] < MaxBatchEnters
    /\ btEnters' = [btEnters EXCEPT ![t] = @ + 1]
    /\ btSaved' = [btSaved EXCEPT ![t] = Append(@, flush_interval)]
    /\ btpc' = [btpc EXCEPT ![t] = "set"]
    /\ UNCHANGED flush_interval
    /\ UNCHANGED <<emitted, trackerVars, panelVars, auditVars, dashVars, restBatch,
                   clientVars, sequence, seqVars>>

\* batch(): client._config.flush_interval = 60.0; try: yield
BtEnterSet(t) ==
    /\ btpc[t] = "set"
    /\ flush_interval' = BatchInterval
    /\ btpc' = [btpc EXCEPT ![t] = "body"]
    /\ UNCHANGED <<btSaved, btEnters>>
    /\ UNCHANGED <<emitted, trackerVars, panelVars, auditVars, dashVars, restBatch,
                   clientVars, sequence, seqVars>>

\* the body of the innermost block ends (normally or by an exception):
\* finally: client._config.flush_interval = original_interval
BtExit(t) ==
    /\ btpc[t] = "body"
    /\ flush_interval' = btSaved[t][Len(btSaved[t])]
    /\ btSaved' = [btSaved EXCEPT ![t] = Front(@)]
    /\ btpc' = [btpc EXCEPT ![t] = IF Len(btSaved[t]) = 1 THEN "idle" ELSE "body"]
    /\ UNCHANGED btEnters
    /\ UNCHANGED <<emitted, trackerVars, panelVars, auditVars, dashVars, restBatch,
                   clientVars, sequence, seqVars>>

InitBatchCtx == ClientInit(BufferSize, TRUE, TRUE, [p \in Producers |-> 0], 0, 0)

NextBatchCtx ==
    \/ \E t \in BtThreads : BtEnterRead(t)
    \/ \E t \in BtThreads : BtEnterSet(t)
    \/ \E t \in BtThreads : BtExit(t)

SpecBatchCtx == InitBatchCtx /\ [][NextBatchCtx]_vars

\* C37: once every hawk.batch() block has exited, nested blocks and blocks of
\* several threads included, flush_interval of the global client equals its
\* value before the first block was entered.
C37_IntervalRestored ==
    (\A t \in BtThreads : btpc[t] = "idle") => flush_interval = FlushInterval

====
